---- MODULE Spec2Model ----
(***************************************************************************)
(* A model of the client state synchronizer of the bookmac reading-log     *)
(* application: the like toggle and the comment subscription of PostCard,  *)
(* the cursor paginator of App and the follow toggle of UserProfilePage,   *)
(* together with the popular-books ranking and the sign-in effect of App   *)
(* and the AI assistant of CreatePostModal.                                *)
(*                                                                         *)
(* React is modelled as follows.  A component's useState cells are the     *)
(* variables.  An event handler, a promise continuation and the effects    *)
(* its state updates trigger are one atomic step (the event loop is        *)
(* single threaded and the updates of one callback are batched into one    *)
(* render).  A handler reads the state of the latest render.  Each remote  *)
(* call is an asynchronous boundary: the call is recorded as in flight     *)
(* with the values its closure captured, and a later step resolves it,     *)
(* successfully or with a failure, in any order.                           *)
(***************************************************************************)
EXTENDS Integers, Sequences, FiniteSets, TLC

VARIABLES
    \* ---- PostCard: like toggle (src/components/PostCard.tsx) ----
    cardUid,        \* currentUser?.uid || auth.currentUser?.uid, or NoUid
    postLikes,      \* post.likes, the likes array of the post prop
    isLiked,        \* useState isLiked
    likeCount,      \* useState likeCount
    likeWrites,     \* updateDoc calls in flight, each with its closure
    storeLikes,     \* the likes array of the post document in the store
    likeAlert,      \* the alert() the last like step raised, or "none"
    likeClicks,     \* history: number of toggles applied so far
    likeFailed,     \* history: some like write has failed
    initLiked,      \* history: isLiked after the mount effect
    initCount,      \* history: likeCount after the mount effect
    lastFail,       \* history: the write whose failure was the last step
    \* ---- App: session and feed paginator (src/unnamed/part_002) ----
    session,        \* the uid of the identity provider's current user, or NoUid
    userDocSub,     \* a user-document subscription is delivering snapshots
    user,           \* useState user (NoUser for null)
    authLoading,    \* useState authLoading
    feedType,       \* useState feedType
    view,           \* useState view
    isMapView,      \* useState isMapView
    posts,          \* useState posts: the loaded post ids, in display order
    lastDoc,        \* useState lastDoc: the cursor document (0 for null)
    hasMore,        \* useState hasMore
    postsLoading,   \* useState postsLoading
    loadingMore,    \* useState loadingMore
    error,          \* useState error is set
    fetches,        \* getDocs calls in flight, each with its closure
    feedOp,         \* history: what the last step did to the paginator
    feedIssued,     \* history: number of queries the last step issued
    \* ---- UserProfilePage: follow toggle (src/components/UserProfilePage.tsx) ----
    pageViewer,     \* currentUser?.uid of the currentUser prop, or NoUid
    pageTarget,     \* the userId prop
    profile,        \* useState profile: the cached target profile (NoProfile for null)
    pageLoading,    \* useState loading
    profileFetches, \* fetchData calls in flight, each with its userId
    followLoading,  \* useState followLoading
    batches,        \* batch.commit() calls in flight, each with its updates
    storeFollowers, \* users/{uid}.followers in the store
    storeFollowing, \* users/{uid}.following in the store
    followOp,       \* history: what the last step did
    \* ---- PostCard: comment stream (src/components/PostCard.tsx) ----
    cardMounted,    \* the card is mounted
    cardPostId,     \* post.id of the post prop
    showComments,   \* useState showComments
    comments,       \* useState comments
    commentError,   \* useState commentError is set
    commentSubs,    \* the onSnapshot listeners not yet unsubscribed
    cleanup,        \* the listener the effect's pending cleanup will unsubscribe (0: none)
    storeComments,  \* the comment ids of each post's sub-collection
    subscribes,     \* history: number of onSnapshot calls
    unsubscribes,   \* history: number of unsubscribe calls
    \* ---- PostCard: comment writes (src/components/PostCard.tsx) ----
    formUser,       \* currentUser?.uid of the currentUser prop, or NoUid
    liveSession,    \* auth.currentUser?.uid, or NoUid
    newComment,     \* useState newComment, a sequence of characters
    submitting,     \* useState submitting
    editingCommentId, \* useState editingCommentId (0 for null)
    editText,       \* useState editText, a sequence of characters
    commentList,    \* useState comments, with the fields of each document
    commentDocs,    \* the documents of the post's comments sub-collection
    commentCalls,   \* addDoc / updateDoc / deleteDoc calls in flight
    commentSeq,     \* the number of comment documents created so far
    commentAlert,   \* the alert() the last comment step raised, or "none"
    commentOp,      \* history: what the last step did
    \* ---- App: popularity ranking (src/unnamed/part_002) ----
    popularSample,  \* the documents getDocs returns to fetchPopular, newest first
    popularBooks,   \* useState popularBooks
    popularLoading, \* useState popularLoading
    popularOp,      \* history: how far fetchPopular has got
    \* ---- CreatePostModal and the content service (src/unnamed/part_000, src/services/geminiService.ts) ----
    apiKey, \* process.env.API_KEY is set
    aiClient, \* the service module's ai client exists
    modalOpen, \* the modal is mounted
    draftTitle, \* useState title
    draftAuthor, \* useState author
    draftReview, \* useState review
    draftQuote, \* useState quote
    publishLoading, \* useState loading
    aiLoading, \* useState aiLoading
    aiCall, \* the generateBookContent call and how far it has got
    postCall, \* the addDoc call of handleSubmit
    modalOp, \* history: what the last step did
    \* ---- App: auth state listener (src/unnamed/part_002) ----
    provider, \* the identity provider's current user, or NoUid
    appUser, \* useState user (NoAppUser for null), with its follower sets
    appAuthLoading, \* useState authLoading
    lookups, \* auth callbacks suspended at await getDoc or await setDoc
    userDocs, \* the documents of the users collection
    docListeners, \* the onSnapshot listeners of user documents not yet unsubscribed
    unsubscribeUserDoc, \* the listener the effect's variable unsubscribes (0 for undefined)
    listenerSeq, \* history: number of onSnapshot calls
    authEvents, \* history: number of auth state events
    authOp, \* history: what the last step did
    \* ---- Combined behaviours of the three components with loading flags ----
    scenario \* the component a combined behaviour exercises, or "none"

likeVars == <<cardUid, postLikes, isLiked, likeCount, likeWrites, storeLikes,
              likeAlert, likeClicks, likeFailed, initLiked, initCount, lastFail>>

feedVars == <<session, userDocSub, user, authLoading, feedType, view, isMapView,
              posts, lastDoc, hasMore, postsLoading, loadingMore, error, fetches,
              feedOp, feedIssued>>

followVars == <<pageViewer, pageTarget, profile, pageLoading, profileFetches,
                followLoading, batches, storeFollowers, storeFollowing, followOp>>

commentVars == <<cardMounted, cardPostId, showComments, comments, commentError,
                 commentSubs, cleanup, storeComments, subscribes, unsubscribes>>

writeVars == <<formUser, liveSession, newComment, submitting, editingCommentId,
               editText, commentList, commentDocs, commentCalls, commentSeq,
               commentAlert, commentOp>>

popularVars == <<popularSample, popularBooks, popularLoading, popularOp>>

modalVars == <<apiKey, aiClient, modalOpen, draftTitle, draftAuthor, draftReview, draftQuote, publishLoading, aiLoading, aiCall, postCall, modalOp>>

authVars == <<provider, appUser, appAuthLoading, lookups, userDocs, docListeners, unsubscribeUserDoc, listenerSeq, authEvents, authOp>>

scenarioVars == <<scenario>>

vars == <<likeVars, feedVars, followVars, commentVars, writeVars, popularVars, modalVars, authVars, scenarioVars>>

outsideLike == <<feedVars, followVars, commentVars, writeVars, popularVars, modalVars, authVars, scenarioVars>>
outsideFeed == <<likeVars, followVars, commentVars, writeVars, popularVars, modalVars, authVars, scenarioVars>>
outsideFollow == <<likeVars, feedVars, commentVars, writeVars, popularVars, modalVars, authVars, scenarioVars>>
outsideComments == <<likeVars, feedVars, followVars, writeVars, popularVars, modalVars, authVars, scenarioVars>>
outsideWrites == <<likeVars, feedVars, followVars, commentVars, popularVars, modalVars, authVars, scenarioVars>>
outsidePopular == <<likeVars, feedVars, followVars, commentVars, writeVars, modalVars, authVars, scenarioVars>>
outsideModal == <<likeVars, feedVars, followVars, commentVars, writeVars, popularVars, authVars, scenarioVars>>
outsideAuth == <<likeVars, feedVars, followVars, commentVars, writeVars, popularVars, modalVars, scenarioVars>>

----------------------------------------------------------------------------
\* Bounds of the model.
MaxLikeWrites == 2      \* like writes in flight at once
MaxLikeClicks == 4      \* like toggles in one behaviour
MaxFetches == 2         \* page queries in flight at once
NumPosts == 12          \* documents in the posts collection
MaxProfileFetches == 2  \* profile loads in flight at once
MaxBatches == 2         \* follow batches in flight at once
MaxSubscribes == 3      \* onSnapshot calls in one behaviour
MaxComments == 1        \* comments in one post's sub-collection
MaxCommentCalls == 2    \* comment writes in flight at once
MaxCommentDocs == 2     \* comment documents ever created under one post
MaxSample == 6          \* posts in the sample the ranking is computed from
MaxAuthEvents == 3      \* auth state events in one behaviour
MaxLookups == 2         \* auth callbacks suspended at once

Users == {"u1", "u2"}
NoUid == "none"

----------------------------------------------------------------------------
\* PostCard: the like toggle.

RemoveAt(s, i) == SubSeq(s, 1, i - 1) \o SubSeq(s, i + 1, Len(s))

\* The mount run of the sync effect.
SyncedLiked(likes, uid) == uid \in likes
SyncedCount(likes) == Cardinality(likes)

OptimisticCountAlwaysUp(wasLiked, prev) == prev + 1
\* setLikeCount(prev => wasLiked ? prev - 1 : prev + 1)
OptimisticCount(wasLiked, prev) == IF wasLiked THEN prev - 1 ELSE prev + 1

RollbackCountNone(wasLiked, prev) == prev
\* setLikeCount(prev => wasLiked ? prev + 1 : prev - 1)
RollbackCount(wasLiked, prev) == IF wasLiked THEN prev + 1 ELSE prev - 1

Range(s) == {s[i] : i \in DOMAIN s}

\* The arrays over S that hold each element of S once.
ArraysOf(S) ==
    {a \in [1..Cardinality(S) -> S] : Range(a) = S}

ArrayUnionAppend(arr, x) == Append(arr, x)
\* arrayUnion(x): x is added to the array field unless it is already there.
ArrayUnion(arr, x) == IF x \in Range(arr) THEN arr ELSE Append(arr, x)

\* arrayRemove(x): every occurrence of x is removed from the array field.
ArrayRemove(arr, x) == SelectSeq(arr, LAMBDA y : y # x)

\* updateDoc(postRef, { likes: arrayRemove(uid) }) or
\* updateDoc(postRef, { likes: arrayUnion(uid) }) applied to the likes field.
ApplyLikeWrite(likes, w) ==
    IF w.wasLiked THEN ArrayRemove(likes, w.uid) ELSE ArrayUnion(likes, w.uid)

NoViewerNever(uid) == FALSE
\* if (!uid): neither the passed-in profile nor the live session has a uid.
NoViewer(uid) == uid = NoUid

NoLastFail ==
    [valid |-> FALSE, preLiked |-> FALSE, preCount |-> 0, alone |-> FALSE,
     preStore |-> <<>>]

LikeInit ==
    /\ cardUid \in Users \cup {NoUid}
    /\ postLikes \in SUBSET Users
    /\ storeLikes \in ArraysOf(postLikes)
    /\ isLiked = SyncedLiked(postLikes, cardUid)
    /\ likeCount = SyncedCount(postLikes)
    /\ likeWrites = <<>>
    /\ likeAlert = "none"
    /\ likeClicks = 0
    /\ likeFailed = FALSE
    /\ initLiked = isLiked
    /\ initCount = likeCount
    /\ lastFail = NoLastFail

\* handleLike with no viewer identifier: the prompt, and nothing else.
HandleLikeNoUid ==
    /\ NoViewer(cardUid)
    /\ likeAlert' = "loginRequired"
    /\ lastFail' = NoLastFail
    /\ UNCHANGED outsideLike
    /\ UNCHANGED <<cardUid, postLikes, isLiked, likeCount, likeWrites,
                   storeLikes, likeClicks, likeFailed, initLiked, initCount>>

\* handleLike with a viewer: the optimistic update, then the write is issued.
HandleLikeToggle ==
    /\ ~NoViewer(cardUid)
    /\ Len(likeWrites) < MaxLikeWrites
    /\ likeClicks < MaxLikeClicks
    /\ isLiked' = ~isLiked
    /\ likeCount' = OptimisticCount(isLiked, likeCount)
    /\ likeWrites' =
         Append([i \in DOMAIN likeWrites |-> [likeWrites[i] EXCEPT !.alone = FALSE]],
                [uid |-> cardUid, wasLiked |-> isLiked,
                 preLiked |-> isLiked, preCount |-> likeCount,
                 alone |-> likeWrites = <<>>, preStore |-> storeLikes])
    /\ likeClicks' = likeClicks + 1
    /\ likeAlert' = "none"
    /\ lastFail' = NoLastFail
    /\ UNCHANGED outsideLike
    /\ UNCHANGED <<cardUid, postLikes, storeLikes, likeFailed, initLiked, initCount>>

HandleLike == HandleLikeNoUid \/ HandleLikeToggle

\* await updateDoc(...) resolves: no further local action.
LikeWriteOk(i) ==
    /\ i \in DOMAIN likeWrites
    /\ storeLikes' = ApplyLikeWrite(storeLikes, likeWrites[i])
    /\ likeWrites' = RemoveAt(likeWrites, i)
    /\ likeAlert' = "none"
    /\ lastFail' = NoLastFail
    /\ UNCHANGED outsideLike
    /\ UNCHANGED <<cardUid, postLikes, isLiked, likeCount, likeClicks,
                   likeFailed, initLiked, initCount>>

\* await updateDoc(...) rejects: the catch block.
LikeWriteFail(i) ==
    /\ i \in DOMAIN likeWrites
    /\ isLiked' = likeWrites[i].wasLiked
    /\ likeCount' = RollbackCount(likeWrites[i].wasLiked, likeCount)
    /\ likeWrites' = RemoveAt(likeWrites, i)
    /\ likeAlert' = "likeFailed"
    /\ likeFailed' = TRUE
    /\ lastFail' = [valid |-> TRUE,
                    preLiked |-> likeWrites[i].preLiked,
                    preCount |-> likeWrites[i].preCount,
                    alone |-> likeWrites[i].alone,
                    preStore |-> likeWrites[i].preStore]
    /\ UNCHANGED outsideLike
    /\ UNCHANGED <<cardUid, postLikes, storeLikes, likeClicks, initLiked, initCount>>

LikeNext ==
    \/ HandleLike
    \/ \E i \in 1..MaxLikeWrites : LikeWriteOk(i)
    \/ \E i \in 1..MaxLikeWrites : LikeWriteFail(i)

\* The like write of a card on another client, opened by viewer u whose card
\* showed the post as liked (wasLiked) or not, reaches the store.
RemoteLikeWrite(u, wasLiked) ==
    /\ storeLikes' = ApplyLikeWrite(storeLikes, [uid |-> u, wasLiked |-> wasLiked])
    /\ storeLikes' # storeLikes
    /\ likeAlert' = "none"
    /\ lastFail' = NoLastFail
    /\ UNCHANGED outsideLike
    /\ UNCHANGED <<cardUid, postLikes, isLiked, likeCount, likeWrites, likeClicks,
                   likeFailed, initLiked, initCount>>

LikeStoreNext ==
    \/ HandleLike
    \/ \E i \in 1..MaxLikeWrites : LikeWriteOk(i)
    \/ \E i \in 1..MaxLikeWrites : LikeWriteFail(i)
    \/ \E u \in Users : \E b \in BOOLEAN : RemoteLikeWrite(u, b)

\* The parent re-renders with a new currentUser object for the same viewer
\* (each snapshot of the user document builds one): the sync effect runs
\* again with the likes of the post prop.
ViewerRedelivered ==
    /\ cardUid # NoUid
    /\ isLiked' = SyncedLiked(postLikes, cardUid)
    /\ likeCount' = SyncedCount(postLikes)
    /\ likeAlert' = "none"
    /\ lastFail' = NoLastFail
    /\ UNCHANGED outsideLike
    /\ UNCHANGED <<cardUid, postLikes, likeWrites, storeLikes, likeClicks, likeFailed,
                   initLiked, initCount>>

\* The parent re-renders with the same post object and the same currentUser
\* object: no dependency of the sync effect has changed, so it does not run.
PostRedelivered ==
    /\ likeAlert' = "none"
    /\ lastFail' = NoLastFail
    /\ UNCHANGED outsideLike
    /\ UNCHANGED <<cardUid, postLikes, isLiked, likeCount, likeWrites, storeLikes,
                   likeClicks, likeFailed, initLiked, initCount>>

CardNext ==
    \/ HandleLike
    \/ \E i \in 1..MaxLikeWrites : LikeWriteOk(i)
    \/ \E i \in 1..MaxLikeWrites : LikeWriteFail(i)
    \/ ViewerRedelivered
    \/ PostRedelivered

\* A card that is not being used: signed-in viewer, no likes.
LikeParked ==
    /\ cardUid = "u1"
    /\ postLikes = {}
    /\ storeLikes = <<>>
    /\ isLiked = FALSE
    /\ likeCount = 0
    /\ likeWrites = <<>>
    /\ likeAlert = "none"
    /\ likeClicks = 0
    /\ likeFailed = FALSE
    /\ initLiked = FALSE
    /\ initCount = 0
    /\ lastFail = NoLastFail

----------------------------------------------------------------------------
\* App: the session and the feed paginator.

POSTS_PER_PAGE == 5

\* The posts collection, unchanging: post ids 1..NumPosts in createdAt-descending
\* order (id 1 is the newest), authored in turn by u2 and u1.
PostAuthor(id) == IF id % 2 = 1 THEN "u2" ELSE "u1"
StorePosts == 1..NumPosts

NoUser == [uid |-> NoUid, following |-> {}]
Profile(u, f) == [uid |-> u, following |-> f]
AllAuthors == Users

\* user.following.slice(0, 30): the first 30 followed identifiers (all of them
\* here, where nobody follows more than Cardinality(Users) users).
FollowingSlice(f) == f

\* The authors the query admits: where('uid', 'in', followingSlice) in FOLLOWING
\* mode with a viewer who follows somebody, no filter otherwise.
QueryFilter(ft, usr) ==
    IF ft = "FOLLOWING" /\ usr # NoUser /\ FollowingSlice(usr.following) # {}
    THEN FollowingSlice(usr.following)
    ELSE AllAuthors

\* The first n elements of a set of post ids in createdAt-descending order.
FirstN(S, n) ==
    [i \in 1..(IF Cardinality(S) <= n THEN Cardinality(S) ELSE n) |->
        CHOOSE x \in S : Cardinality({y \in S : y < x}) = i - 1]

\* getDocs(query(posts, orderBy(createdAt desc), where(uid in filter),
\* limit(POSTS_PER_PAGE), startAfter(cursor))).
QueryPage(filter, cursor) ==
    FirstN({id \in StorePosts : PostAuthor(id) \in filter /\ id > cursor},
           POSTS_PER_PAGE)

Last(s) == IF s = <<>> THEN 0 ELSE s[Len(s)]

\* The snapshot filter of the unpaginated feed: the followed authors' posts and
\* the viewer's own.
SnapshotFeedFilter(usr, id) ==
    PostAuthor(id) \in usr.following \/ PostAuthor(id) = usr.uid

InMapViewNever == FALSE
\* The map view is shown in place of the list: the sentinel is not rendered
\* and the observer callback's condition fails.
InMapView == isMapView

\* The loader sentinel is rendered (loaderRef.current is set): home view, no
\* error panel, a non-empty or loading list, list view, and something to load.
LoaderMounted ==
    /\ view = "home"
    /\ ~authLoading
    /\ ~error
    /\ ~(Len(posts) = 0 /\ ~postsLoading)
    /\ ~InMapView
    /\ (hasMore \/ loadingMore \/ postsLoading)

LoadMoreGuardNoReentrancy == hasMore /\ ~postsLoading /\ ~InMapView
\* The IntersectionObserver callback's condition (isIntersecting aside).
LoadMoreGuard == hasMore /\ ~loadingMore /\ ~postsLoading /\ ~InMapView

NoFollowing(usr) == usr = NoUser \/ usr.following = {}

FollowingEmptyNever(ft, usr) == FALSE
\* feedType === FOLLOWING && (!user || user.following.length === 0)
FollowingEmpty(ft, usr) == ft = "FOLLOWING" /\ NoFollowing(usr)

\* fetchPosts(isInitial), called from a render whose state is ft, usr, vw, hm
\* and ld, after the caller queued bPosts, bLastDoc and bHasMore in the same
\* batch of updates.
FetchPosts(isInitial, ft, usr, vw, hm, ld, bPosts, bLastDoc, bHasMore) ==
    IF (~hm /\ ~isInitial) \/ vw # "home"
    THEN /\ posts' = bPosts
         /\ lastDoc' = bLastDoc
         /\ hasMore' = bHasMore
         /\ UNCHANGED <<postsLoading, loadingMore, fetches>>
         /\ feedOp' = "returned"
         /\ feedIssued' = 0
    ELSE IF FollowingEmpty(ft, usr)
    THEN /\ posts' = <<>>
         /\ lastDoc' = bLastDoc
         /\ hasMore' = FALSE
         /\ postsLoading' = FALSE
         /\ UNCHANGED <<loadingMore, fetches>>
         /\ feedOp' = IF isInitial THEN "initialSkipped" ELSE "moreSkipped"
         /\ feedIssued' = 0
    ELSE /\ posts' = bPosts
         /\ lastDoc' = bLastDoc
         /\ hasMore' = bHasMore
         /\ postsLoading' = IF isInitial THEN TRUE ELSE postsLoading
         /\ loadingMore' = IF isInitial THEN loadingMore ELSE TRUE
         /\ fetches' = Append(fetches,
                [isInitial |-> isInitial,
                 filter |-> QueryFilter(ft, usr),
                 cursor |-> IF ~isInitial THEN ld ELSE 0,
                 mode |-> ft,
                 viewer |-> usr])
         /\ feedOp' = IF isInitial THEN "initialIssued" ELSE "moreIssued"
         /\ feedIssued' = 1

\* The feed reset effect, deps [feedType, user?.uid, view, authLoading], run
\* after a render with the new values ft, usr, vw and al.
ResetEffect(ft, usr, vw, al) ==
    IF /\ (ft # feedType \/ usr.uid # user.uid \/ vw # view \/ al # authLoading)
       /\ vw = "home"
       /\ ~al
    THEN FetchPosts(TRUE, ft, usr, vw, hasMore, lastDoc, <<>>, 0, TRUE)
    ELSE /\ UNCHANGED <<posts, lastDoc, hasMore, postsLoading, loadingMore, fetches>>
         /\ feedOp' = "none"
         /\ feedIssued' = 0

FeedInit ==
    /\ session = NoUid
    /\ userDocSub = FALSE
    /\ user = NoUser
    /\ authLoading = TRUE
    /\ feedType = "GLOBAL"
    /\ view = "home"
    /\ isMapView = FALSE
    /\ posts = <<>>
    /\ lastDoc = 0
    /\ hasMore = TRUE
    /\ postsLoading = FALSE
    /\ loadingMore = FALSE
    /\ error = FALSE
    /\ fetches = <<>>
    /\ feedOp = "none"
    /\ feedIssued = 0

FeedParked == FeedInit

CanIssue == Len(fetches) < MaxFetches

\* onAuthStateChanged with a user, the profile lookup done and the user-document
\* subscription opened: setAuthLoading(false).
AuthSignedIn(u) ==
    /\ session = NoUid
    /\ CanIssue
    /\ session' = u
    /\ userDocSub' = TRUE
    /\ authLoading' = FALSE
    /\ UNCHANGED <<user, feedType, view, isMapView, error>>
    /\ UNCHANGED outsideFeed
    /\ ResetEffect(feedType, user, view, FALSE)

\* onAuthStateChanged with a user whose profile lookup throws: the fallback
\* profile, no subscription.
AuthProfileError(u) ==
    /\ session = NoUid
    /\ CanIssue
    /\ session' = u
    /\ userDocSub' = FALSE
    /\ user' = Profile(u, {})
    /\ authLoading' = FALSE
    /\ UNCHANGED <<feedType, view, isMapView, error>>
    /\ UNCHANGED outsideFeed
    /\ ResetEffect(feedType, Profile(u, {}), view, FALSE)

\* The user-document snapshot handler: setUser with the stored profile.
UserDocSnapshot(f) ==
    /\ userDocSub
    /\ CanIssue
    /\ user' = Profile(session, f)
    /\ UNCHANGED outsideFeed
    /\ UNCHANGED <<session, userDocSub, authLoading, feedType, view, isMapView, error>>
    /\ ResetEffect(feedType, Profile(session, f), view, authLoading)

\* onAuthStateChanged with no user: setUser(null); setAuthLoading(false).
AuthSignedOut ==
    /\ session # NoUid \/ authLoading
    /\ CanIssue
    /\ session' = NoUid
    /\ userDocSub' = FALSE
    /\ user' = NoUser
    /\ authLoading' = FALSE
    /\ UNCHANGED <<feedType, view, isMapView, error>>
    /\ UNCHANGED outsideFeed
    /\ ResetEffect(feedType, NoUser, view, FALSE)

\* handleLogout, its sign-out event and its continuation in one batch.
HandleLogout ==
    /\ user # NoUser
    /\ CanIssue
    /\ session' = NoUid
    /\ userDocSub' = FALSE
    /\ user' = NoUser
    /\ authLoading' = FALSE
    /\ feedType' = "GLOBAL"
    /\ view' = "home"
    /\ UNCHANGED <<isMapView, error>>
    /\ UNCHANGED outsideFeed
    /\ ResetEffect("GLOBAL", NoUser, "home", FALSE)

\* The feed buttons: setFeedType(ft); navigateToHome().
SetFeed(ft) ==
    /\ ~authLoading
    /\ ft = "FOLLOWING" => user # NoUser
    /\ CanIssue
    /\ feedType' = ft
    /\ view' = "home"
    /\ UNCHANGED outsideFeed
    /\ UNCHANGED <<session, userDocSub, user, authLoading, isMapView, error>>
    /\ ResetEffect(ft, user, "home", authLoading)

NavigateToProfile ==
    /\ ~authLoading
    /\ view = "home"
    /\ view' = "profile"
    /\ UNCHANGED outsideFeed
    /\ UNCHANGED <<session, userDocSub, user, authLoading, feedType, isMapView, error>>
    /\ ResetEffect(feedType, user, "profile", authLoading)

NavigateToHome ==
    /\ ~authLoading
    /\ view = "profile"
    /\ CanIssue
    /\ view' = "home"
    /\ UNCHANGED outsideFeed
    /\ UNCHANGED <<session, userDocSub, user, authLoading, feedType, isMapView, error>>
    /\ ResetEffect(feedType, user, "home", authLoading)

\* The map button of the home header.
ToggleMapView ==
    /\ ~authLoading
    /\ view = "home"
    /\ isMapView' = ~isMapView
    /\ UNCHANGED outsideFeed
    /\ UNCHANGED <<session, userDocSub, user, authLoading, feedType, view, error>>
    /\ ResetEffect(feedType, user, view, authLoading)

\* The IntersectionObserver callback with the sentinel intersecting.
LoadMoreTrigger ==
    /\ LoaderMounted
    /\ LoadMoreGuard
    /\ CanIssue
    /\ UNCHANGED outsideFeed
    /\ UNCHANGED <<session, userDocSub, user, authLoading, feedType, view, isMapView, error>>
    /\ FetchPosts(FALSE, feedType, user, view, hasMore, lastDoc, posts, lastDoc, hasMore)

FetchOkPostsReplace(q, page) == page
\* setPosts(newPosts) / setPosts(prev => [...prev, ...newPosts])
FetchOkPosts(q, page) == IF q.isInitial THEN page ELSE posts \o page

\* await getDocs(q) resolves: the page is stored, the cursor and the exhaustion
\* flag are set, and the finally block resets the call's loading flag.
FetchOk(i) ==
    /\ i \in DOMAIN fetches
    /\ LET q == fetches[i]
           page == QueryPage(q.filter, q.cursor)
       IN /\ posts' = FetchOkPosts(q, page)
          /\ lastDoc' = Last(page)
          /\ hasMore' = (Len(page) = POSTS_PER_PAGE)
          /\ postsLoading' = IF q.isInitial THEN FALSE ELSE postsLoading
          /\ loadingMore' = IF q.isInitial THEN loadingMore ELSE FALSE
          /\ feedOp' = IF q.isInitial THEN "initialOk" ELSE "moreOk"
    /\ fetches' = RemoveAt(fetches, i)
    /\ feedIssued' = 0
    /\ UNCHANGED outsideFeed
    /\ UNCHANGED <<session, userDocSub, user, authLoading, feedType, view, isMapView, error>>

FetchFailPostsCleared == <<>>
\* The catch block leaves the loaded posts alone.
FetchFailPosts == posts

\* await getDocs(q) rejects: setError, then the finally block.
FetchFail(i) ==
    /\ i \in DOMAIN fetches
    /\ error' = TRUE
    /\ posts' = FetchFailPosts
    /\ postsLoading' = IF fetches[i].isInitial THEN FALSE ELSE postsLoading
    /\ loadingMore' = IF fetches[i].isInitial THEN loadingMore ELSE FALSE
    /\ feedOp' = IF fetches[i].isInitial THEN "initialFailed" ELSE "moreFailed"
    /\ fetches' = RemoveAt(fetches, i)
    /\ feedIssued' = 0
    /\ UNCHANGED outsideFeed
    /\ UNCHANGED <<session, userDocSub, user, authLoading, feedType, view, isMapView,
                   lastDoc, hasMore>>

FeedNext ==
    \/ \E u \in Users : AuthSignedIn(u)
    \/ \E u \in Users : AuthProfileError(u)
    \/ \E f \in SUBSET Users : f \subseteq Users \ {session} /\ UserDocSnapshot(f)
    \/ AuthSignedOut
    \/ HandleLogout
    \/ \E ft \in {"GLOBAL", "FOLLOWING"} : SetFeed(ft)
    \/ NavigateToProfile
    \/ NavigateToHome
    \/ ToggleMapView
    \/ LoadMoreTrigger
    \/ \E i \in 1..MaxFetches : FetchOk(i)
    \/ \E i \in 1..MaxFetches : FetchFail(i)

----------------------------------------------------------------------------
\* UserProfilePage: the follow toggle.

NoProfile == [exists |-> FALSE, uid |-> NoUid, followers |-> {}]
StoredProfile(t) == [exists |-> TRUE, uid |-> t, followers |-> storeFollowers[t]]

IsOwnProfileNever == FALSE
\* const isOwnProfile = currentUser?.uid === userId
IsOwnProfile == pageViewer = pageTarget
\* const isFollowing = profile?.followers?.includes(currentUser?.uid || '')
IsFollowing == pageViewer \in profile.followers

\* The store in which following and followers mirror each other.
Mirrored(fers, fing) ==
    \A v \in Users : \A t \in Users : (t \in fing[v]) <=> (v \in fers[t])

FollowInit ==
    /\ pageViewer \in Users \cup {NoUid}
    /\ pageTarget \in Users
    /\ profile = NoProfile
    /\ pageLoading = TRUE
    /\ profileFetches = <<pageTarget>>
    /\ followLoading = FALSE
    /\ batches = <<>>
    /\ storeFollowing \in [Users -> SUBSET Users]
    /\ \A u \in Users : u \notin storeFollowing[u]
    /\ storeFollowers = [t \in Users |-> {v \in Users : t \in storeFollowing[v]}]
    /\ followOp = "none"

FollowParked ==
    /\ pageViewer = NoUid
    /\ pageTarget = "u1"
    /\ profile = NoProfile
    /\ pageLoading = TRUE
    /\ profileFetches = <<"u1">>
    /\ followLoading = FALSE
    /\ batches = <<>>
    /\ storeFollowing = [u \in Users |-> {}]
    /\ storeFollowers = [u \in Users |-> {}]
    /\ followOp = "none"

\* The userId prop changes: the fetchData effect runs again.
OpenProfile(t) ==
    /\ t # pageTarget
    /\ Len(profileFetches) < MaxProfileFetches
    /\ pageTarget' = t
    /\ pageLoading' = TRUE
    /\ profileFetches' = Append(profileFetches, t)
    /\ followOp' = "open"
    /\ UNCHANGED <<pageViewer, profile, followLoading, batches, storeFollowers,
                   storeFollowing>>
    /\ UNCHANGED outsideFollow

\* fetchData's getDoc resolves: setProfile(userSnap.data()); setLoading(false).
ProfileLoaded(i) ==
    /\ i \in DOMAIN profileFetches
    /\ profile' = StoredProfile(profileFetches[i])
    /\ pageLoading' = FALSE
    /\ profileFetches' = RemoveAt(profileFetches, i)
    /\ followOp' = "loaded"
    /\ UNCHANGED <<pageViewer, pageTarget, followLoading, batches, storeFollowers,
                   storeFollowing>>
    /\ UNCHANGED outsideFollow

\* The currentUser prop changes (sign-in, sign-out).
ViewerChange(v) ==
    /\ v # pageViewer
    /\ pageViewer' = v
    /\ followOp' = "viewer"
    /\ UNCHANGED <<pageTarget, profile, pageLoading, profileFetches, followLoading,
                   batches, storeFollowers, storeFollowing>>
    /\ UNCHANGED outsideFollow

\* The follow button is rendered and enabled.
FollowButtonEnabled ==
    /\ ~pageLoading
    /\ profile.exists
    /\ ~IsOwnProfile
    /\ ~followLoading
    /\ pageViewer # NoUid

OptimisticFollowersNone(fers, viewer, unfollow) == fers
\* setProfile(prev => ({...prev, followers: prev.followers without / with the
\* viewer's uid}))
OptimisticFollowers(fers, viewer, unfollow) ==
    IF unfollow THEN fers \ {viewer} ELSE fers \cup {viewer}

\* The follow button is rendered: the page is loaded, the profile exists and
\* is not the viewer's own.
FollowButtonShown ==
    /\ ~pageLoading
    /\ profile.exists
    /\ ~IsOwnProfile

BatchUpdatesTargetOnly(viewer, target, unfollow) ==
    [viewer |-> viewer, target |-> target, unfollow |-> unfollow,
     onViewer |-> FALSE, onTarget |-> TRUE]
\* The updates handleFollowToggle puts in its batch: one on the viewer's
\* following and one on the target's followers.
BatchUpdates(viewer, target, unfollow) ==
    [viewer |-> viewer, target |-> target, unfollow |-> unfollow,
     onViewer |-> TRUE, onTarget |-> TRUE]

NoCurrentUserNever(viewer) == FALSE
\* if (!currentUser): the currentUser prop is null.
NoCurrentUser(viewer) == viewer = NoUid

\* History kept with a batch: whether the cached followers matched the store
\* when the toggle ran, and the cached profile after the optimistic update.
BatchHistory(synced, optimistic) == [synced |-> synced, optimistic |-> optimistic]

\* handleFollowToggle, up to await batch.commit(): a click on the enabled
\* button, or a call while there is no viewer, which the handler's first check
\* turns into the login message.
HandleFollowToggle ==
    /\ FollowButtonShown
    /\ pageViewer = NoUid \/ FollowButtonEnabled
    /\ IF NoCurrentUser(pageViewer)
       THEN /\ followOp' = "loginRequired"
            /\ UNCHANGED <<followLoading, batches, profile>>
       ELSE /\ Len(batches) < MaxBatches
            /\ followLoading' = TRUE
            /\ profile' = [profile EXCEPT
                             !.followers = OptimisticFollowers(@, pageViewer, IsFollowing)]
            /\ batches' = Append(batches,
                    BatchUpdates(pageViewer, pageTarget, IsFollowing) @@
                    BatchHistory(profile.followers = storeFollowers[pageTarget],
                                 profile'))
            /\ followOp' = "toggled"
    /\ UNCHANGED <<pageViewer, pageTarget, pageLoading, profileFetches,
                   storeFollowers, storeFollowing>>
    /\ UNCHANGED outsideFollow

ArrayOp(set, x, remove) == IF remove THEN set \ {x} ELSE set \cup {x}

\* batch.commit() resolves: every update of the batch is applied at once.
BatchCommitOk(i) ==
    /\ i \in DOMAIN batches
    /\ LET b == batches[i]
       IN /\ storeFollowing' =
               IF b.onViewer
               THEN [storeFollowing EXCEPT ![b.viewer] = ArrayOp(@, b.target, b.unfollow)]
               ELSE storeFollowing
          /\ storeFollowers' =
               IF b.onTarget
               THEN [storeFollowers EXCEPT ![b.target] = ArrayOp(@, b.viewer, b.unfollow)]
               ELSE storeFollowers
    /\ batches' = RemoveAt(batches, i)
    /\ followLoading' = FALSE
    /\ followOp' = "committed"
    /\ UNCHANGED <<pageViewer, pageTarget, profile, pageLoading, profileFetches>>
    /\ UNCHANGED outsideFollow

\* batch.commit() rejects: none of its updates is applied; alert, no rollback.
BatchCommitFail(i) ==
    /\ i \in DOMAIN batches
    /\ batches' = RemoveAt(batches, i)
    /\ followLoading' = FALSE
    /\ followOp' = "failed"
    /\ UNCHANGED <<pageViewer, pageTarget, profile, pageLoading, profileFetches,
                   storeFollowers, storeFollowing>>
    /\ UNCHANGED outsideFollow

FollowNext ==
    \/ \E t \in Users : OpenProfile(t)
    \/ \E i \in 1..MaxProfileFetches : ProfileLoaded(i)
    \/ \E v \in Users \cup {NoUid} : ViewerChange(v)
    \/ HandleFollowToggle
    \/ \E i \in 1..MaxBatches : BatchCommitOk(i)
    \/ \E i \in 1..MaxBatches : BatchCommitFail(i)

----------------------------------------------------------------------------
\* PostCard: the comment stream.

PostIds == {"p1", "p2"}

\* A sub-collection of n comments, createdAt ascending: comment ids 1..n.
SnapshotDocs(n) == [k \in 1..n |-> k]

KeepListener(subs, h) == subs
\* The effect's cleanup, () => unsubscribe(): the listener h is removed.
Unsubscribe(subs, h) == {x \in subs : x.id # h}

CommentInit ==
    /\ cardMounted = TRUE
    /\ cardPostId \in PostIds
    /\ showComments = FALSE
    /\ comments = <<>>
    /\ commentError = FALSE
    /\ commentSubs = {}
    /\ cleanup = 0
    /\ storeComments = [p \in PostIds |-> 0]
    /\ subscribes = 0
    /\ unsubscribes = 0

CommentParked ==
    /\ cardMounted = TRUE
    /\ cardPostId = "p1"
    /\ showComments = FALSE
    /\ comments = <<>>
    /\ commentError = FALSE
    /\ commentSubs = {}
    /\ cleanup = 0
    /\ storeComments = [p \in PostIds |-> 0]
    /\ subscribes = 0
    /\ unsubscribes = 0

\* The comment effect, deps [showComments, post.id], after a render with the
\* new values show and pid: the previous run's cleanup, then the body.
CommentEffect(show, pid) ==
    IF show # showComments \/ pid # cardPostId
    THEN LET cleaned == IF cleanup # 0 THEN Unsubscribe(commentSubs, cleanup)
                        ELSE commentSubs
         IN /\ unsubscribes' = IF cleanup # 0 THEN unsubscribes + 1 ELSE unsubscribes
            /\ IF show
               THEN /\ commentError' = FALSE
                    /\ commentSubs' = cleaned \cup {[id |-> subscribes + 1, post |-> pid]}
                    /\ cleanup' = subscribes + 1
                    /\ subscribes' = subscribes + 1
               ELSE /\ commentSubs' = cleaned
                    /\ cleanup' = 0
                    /\ UNCHANGED <<commentError, subscribes>>
    ELSE UNCHANGED <<commentError, commentSubs, cleanup, subscribes, unsubscribes>>

\* The comment button: setShowComments(!showComments).
ToggleComments ==
    /\ cardMounted
    /\ subscribes < MaxSubscribes
    /\ showComments' = ~showComments
    /\ CommentEffect(~showComments, cardPostId)
    /\ UNCHANGED <<cardMounted, cardPostId, comments, storeComments>>
    /\ UNCHANGED outsideComments

\* The post prop is replaced by a post with another id.
PostIdChange(pid) ==
    /\ cardMounted
    /\ pid # cardPostId
    /\ subscribes < MaxSubscribes
    /\ cardPostId' = pid
    /\ CommentEffect(showComments, pid)
    /\ UNCHANGED <<cardMounted, showComments, comments, storeComments>>
    /\ UNCHANGED outsideComments

\* The card is torn down: the pending cleanup runs.
UnmountCard ==
    /\ cardMounted
    /\ cardMounted' = FALSE
    /\ commentSubs' = IF cleanup # 0 THEN Unsubscribe(commentSubs, cleanup)
                      ELSE commentSubs
    /\ unsubscribes' = IF cleanup # 0 THEN unsubscribes + 1 ELSE unsubscribes
    /\ cleanup' = 0
    /\ UNCHANGED <<cardPostId, showComments, comments, commentError, storeComments,
                   subscribes>>
    /\ UNCHANGED outsideComments

\* A new card instance is mounted: fresh state, the effect runs collapsed.
MountCard(pid) ==
    /\ ~cardMounted
    /\ cardMounted' = TRUE
    /\ cardPostId' = pid
    /\ showComments' = FALSE
    /\ comments' = <<>>
    /\ commentError' = FALSE
    /\ UNCHANGED <<commentSubs, cleanup, storeComments, subscribes, unsubscribes>>
    /\ UNCHANGED outsideComments

\* A listener's next callback: setComments(loadedComments).
CommentSnapshot(h) ==
    /\ h \in commentSubs
    /\ cardMounted
    /\ comments' = SnapshotDocs(storeComments[h.post])
    /\ UNCHANGED <<cardMounted, cardPostId, showComments, commentError, commentSubs,
                   cleanup, storeComments, subscribes, unsubscribes>>
    /\ UNCHANGED outsideComments

\* A listener's error callback: setCommentError(...).
CommentSubError(h) ==
    /\ h \in commentSubs
    /\ cardMounted
    /\ commentError' = TRUE
    /\ UNCHANGED <<cardMounted, cardPostId, showComments, comments, commentSubs,
                   cleanup, storeComments, subscribes, unsubscribes>>
    /\ UNCHANGED outsideComments

\* Some client adds a comment document to a post's sub-collection.
RemoteCommentAdded(pid) ==
    /\ storeComments[pid] < MaxComments
    /\ storeComments' = [storeComments EXCEPT ![pid] = @ + 1]
    /\ UNCHANGED <<cardMounted, cardPostId, showComments, comments, commentError,
                   commentSubs, cleanup, subscribes, unsubscribes>>
    /\ UNCHANGED outsideComments

CommentNext ==
    \/ ToggleComments
    \/ \E pid \in PostIds : PostIdChange(pid)
    \/ UnmountCard
    \/ \E pid \in PostIds : MountCard(pid)
    \/ \E h \in commentSubs : CommentSnapshot(h)
    \/ \E h \in commentSubs : CommentSubError(h)
    \/ \E pid \in PostIds : RemoteCommentAdded(pid)

----------------------------------------------------------------------------
\* PostCard: the comment form and the comment edit and delete controls of a
\* card whose comment panel is expanded.  The card stays mounted while the
\* viewer changes (as a card of UserProfilePage does: its posts are loaded per
\* userId, not per viewer).

\* The texts of the model: empty, whitespace only, plain, and padded.
Texts == {<<>>, <<" ">>, <<"a">>, <<" ", "a", " ">>}

TrimNone(t) == t
\* String.prototype.trim: leading and trailing whitespace removed.
RECURSIVE Trim(_)
Trim(t) ==
    IF t = <<>> THEN t
    ELSE IF Head(t) = " " THEN Trim(Tail(t))
    ELSE IF t[Len(t)] = " " THEN Trim(SubSeq(t, 1, Len(t) - 1))
    ELSE t

NoParent == "null"

NoDoc == [id |-> 0, postId |-> "none", parentId |-> NoParent, uid |-> NoUid,
          text |-> <<>>]

\* const uid = currentUser?.uid || auth.currentUser?.uid
ResolveUid(propUid, sessionUid) == IF propUid # NoUid THEN propUid ELSE sessionUid

\* The document handleAddComment passes to addDoc.
AddedDoc(pid, uid, text) ==
    [id |-> 0, postId |-> pid, parentId |-> NoParent, uid |-> uid, text |-> text]

\* A sub-collection as it may be when the card is expanded: no comment, or one
\* comment written earlier by some user.
InitialDocs ==
    {<<>>} \cup {<<[id |-> 1, postId |-> "p1", parentId |-> NoParent, uid |-> u,
                    text |-> <<"a">>]>> : u \in Users}

WriteInit ==
    /\ formUser \in Users \cup {NoUid}
    /\ liveSession = formUser
    /\ newComment = <<>>
    /\ submitting = FALSE
    /\ editingCommentId = 0
    /\ editText = <<>>
    /\ commentDocs \in InitialDocs
    /\ commentList = commentDocs
    /\ commentCalls = <<>>
    /\ commentSeq = Len(commentDocs)
    /\ commentAlert = "none"
    /\ commentOp = "none"

WriteParked ==
    /\ formUser = NoUid
    /\ liveSession = NoUid
    /\ newComment = <<>>
    /\ submitting = FALSE
    /\ editingCommentId = 0
    /\ editText = <<>>
    /\ commentDocs = <<>>
    /\ commentList = <<>>
    /\ commentCalls = <<>>
    /\ commentSeq = 0
    /\ commentAlert = "none"
    /\ commentOp = "none"

\* The comment stream after the comment button was pressed once on post p1.
CommentExpanded ==
    /\ cardMounted = TRUE
    /\ cardPostId = "p1"
    /\ showComments = TRUE
    /\ comments = <<>>
    /\ commentError = FALSE
    /\ commentSubs = {[id |-> 1, post |-> "p1"]}
    /\ cleanup = 1
    /\ storeComments = [p \in PostIds |-> 0]
    /\ subscribes = 1
    /\ unsubscribes = 0

\* The currentUser prop follows the session: App passes null or the profile
\* of the session's user.
FormViewerChange(v) ==
    /\ v # formUser
    /\ v \in {NoUid, liveSession}
    /\ formUser' = v
    /\ commentAlert' = "none"
    /\ commentOp' = "viewer"
    /\ UNCHANGED <<liveSession, newComment, submitting, editingCommentId, editText,
                   commentList, commentDocs, commentCalls, commentSeq>>
    /\ UNCHANGED outsideWrites

\* auth.currentUser changes: sign-in, sign-out, another account.
LiveSessionChange(v) ==
    /\ v # liveSession
    /\ liveSession' = v
    /\ commentAlert' = "none"
    /\ commentOp' = "session"
    /\ UNCHANGED <<formUser, newComment, submitting, editingCommentId, editText,
                   commentList, commentDocs, commentCalls, commentSeq>>
    /\ UNCHANGED outsideWrites

\* The comment form is rendered: {currentUser ? <form ...> : ...}.
CommentFormShown == showComments /\ formUser # NoUid

\* onChange of the comment input: setNewComment(e.target.value).
SetNewComment(t) ==
    /\ CommentFormShown
    /\ t # newComment
    /\ newComment' = t
    /\ commentAlert' = "none"
    /\ commentOp' = "typed"
    /\ UNCHANGED <<formUser, liveSession, submitting, editingCommentId, editText,
                   commentList, commentDocs, commentCalls, commentSeq>>
    /\ UNCHANGED outsideWrites

\* handleAddComment up to await addDoc(...), for a submit event in any state of
\* the expanded card: the handler's own checks decide what happens.
HandleAddComment ==
    /\ cardMounted /\ showComments
    /\ (Trim(newComment) # <<>> /\ ~NoViewer(ResolveUid(formUser, liveSession))) =>
          /\ Len(commentCalls) < MaxCommentCalls
          /\ commentSeq + Len(commentCalls) < MaxCommentDocs
    /\ LET uid == ResolveUid(formUser, liveSession)
       IN IF Trim(newComment) = <<>>
          THEN /\ commentOp' = "addRejectedEmpty"
               /\ commentAlert' = "none"
               /\ UNCHANGED <<submitting, commentCalls>>
          ELSE IF NoViewer(uid)
          THEN /\ commentOp' = "addRejectedNoViewer"
               /\ commentAlert' = "loginRequired"
               /\ UNCHANGED <<submitting, commentCalls>>
          ELSE LET call == [kind |-> "add", id |-> 0, text |-> newComment,
                            actor |-> uid, owner |-> uid,
                            doc |-> AddedDoc(cardPostId, uid, newComment)]
               IN /\ submitting' = TRUE
                  /\ commentCalls' = Append(commentCalls, call)
                  /\ commentOp' = "addIssued"
                  /\ commentAlert' = "none"
    /\ UNCHANGED <<formUser, liveSession, newComment, editingCommentId, editText,
                   commentList, commentDocs, commentSeq>>
    /\ UNCHANGED outsideWrites

AddOkInputKept == newComment
\* setNewComment('')
AddOkInput == <<>>

FinallySubmittingKept == submitting
\* finally { setSubmitting(false); }
FinallySubmitting == FALSE

\* await addDoc(...) resolves: the document is created, the input is cleared,
\* and the finally block resets submitting.
AddCommentOk(i) ==
    /\ i \in DOMAIN commentCalls
    /\ commentCalls[i].kind = "add"
    /\ commentDocs' = Append(commentDocs,
                             [commentCalls[i].doc EXCEPT !.id = commentSeq + 1])
    /\ commentSeq' = commentSeq + 1
    /\ newComment' = AddOkInput
    /\ submitting' = FinallySubmitting
    /\ commentCalls' = RemoveAt(commentCalls, i)
    /\ commentAlert' = "none"
    /\ commentOp' = "addOk"
    /\ UNCHANGED <<formUser, liveSession, editingCommentId, editText, commentList>>
    /\ UNCHANGED outsideWrites

\* await addDoc(...) rejects: the alert, then the finally block.
AddCommentFail(i) ==
    /\ i \in DOMAIN commentCalls
    /\ commentCalls[i].kind = "add"
    /\ submitting' = FinallySubmitting
    /\ commentCalls' = RemoveAt(commentCalls, i)
    /\ commentAlert' = "addFailed"
    /\ commentOp' = "addFailed"
    /\ UNCHANGED <<formUser, liveSession, newComment, editingCommentId, editText,
                   commentList, commentDocs, commentSeq>>
    /\ UNCHANGED outsideWrites

\* The listener's callback: setComments(loadedComments).
ListSnapshot ==
    /\ cardMounted /\ commentSubs # {}
    /\ commentList # commentDocs
    /\ commentList' = commentDocs
    /\ commentAlert' = "none"
    /\ commentOp' = "snapshot"
    /\ UNCHANGED <<formUser, liveSession, newComment, submitting, editingCommentId,
                   editText, commentDocs, commentCalls, commentSeq>>
    /\ UNCHANGED outsideWrites

\* The pen and trash buttons of comment c are rendered: the non-edit branch,
\* and currentUser?.uid === comment.uid.
AuthorButtonsShown(c) ==
    /\ showComments
    /\ editingCommentId # c.id
    /\ formUser = c.uid

\* The edit form of a listed comment is rendered: editingCommentId === comment.id.
EditFormShown ==
    /\ showComments
    /\ \E k \in DOMAIN commentList : commentList[k].id = editingCommentId

EditedComment ==
    commentList[CHOOSE k \in DOMAIN commentList : commentList[k].id = editingCommentId]

\* startEditing(comment)
StartEditing(k) ==
    /\ k \in DOMAIN commentList
    /\ AuthorButtonsShown(commentList[k])
    /\ editingCommentId' = commentList[k].id
    /\ editText' = commentList[k].text
    /\ commentAlert' = "none"
    /\ commentOp' = "startEditing"
    /\ UNCHANGED <<formUser, liveSession, newComment, submitting, commentList,
                   commentDocs, commentCalls, commentSeq>>
    /\ UNCHANGED outsideWrites

\* The cancel button of the edit form: setEditingCommentId(null).
CancelEditing ==
    /\ EditFormShown
    /\ editingCommentId' = 0
    /\ commentAlert' = "none"
    /\ commentOp' = "cancelEditing"
    /\ UNCHANGED <<formUser, liveSession, newComment, submitting, editText,
                   commentList, commentDocs, commentCalls, commentSeq>>
    /\ UNCHANGED outsideWrites

\* onChange of the edit input: setEditText(e.target.value).
SetEditText(t) ==
    /\ EditFormShown
    /\ t # editText
    /\ editText' = t
    /\ commentAlert' = "none"
    /\ commentOp' = "typedEdit"
    /\ UNCHANGED <<formUser, liveSession, newComment, submitting, editingCommentId,
                   commentList, commentDocs, commentCalls, commentSeq>>
    /\ UNCHANGED outsideWrites

\* The save button of the edit form: handleUpdateComment(comment.id) up to
\* await updateDoc(...).
HandleUpdateComment ==
    /\ EditFormShown
    /\ Len(commentCalls) < MaxCommentCalls
    /\ IF Trim(editText) = <<>>
       THEN /\ commentOp' = "updateRejected"
            /\ UNCHANGED commentCalls
       ELSE LET call == [kind |-> "update", id |-> EditedComment.id,
                         text |-> editText,
                         actor |-> ResolveUid(formUser, liveSession),
                         owner |-> EditedComment.uid, doc |-> NoDoc]
            IN /\ commentCalls' = Append(commentCalls, call)
               /\ commentOp' = "updateIssued"
    /\ commentAlert' = "none"
    /\ UNCHANGED <<formUser, liveSession, newComment, submitting, editingCommentId,
                   editText, commentList, commentDocs, commentSeq>>
    /\ UNCHANGED outsideWrites

\* await updateDoc(...) resolves: the text is stored and edit mode is left.
UpdateCommentOk(i) ==
    /\ i \in DOMAIN commentCalls
    /\ commentCalls[i].kind = "update"
    /\ \E k \in DOMAIN commentDocs : commentDocs[k].id = commentCalls[i].id
    /\ commentDocs' = [k \in DOMAIN commentDocs |->
                         IF commentDocs[k].id = commentCalls[i].id
                         THEN [commentDocs[k] EXCEPT !.text = commentCalls[i].text]
                         ELSE commentDocs[k]]
    /\ editingCommentId' = 0
    /\ editText' = <<>>
    /\ commentCalls' = RemoveAt(commentCalls, i)
    /\ commentAlert' = "none"
    /\ commentOp' = "updateOk"
    /\ UNCHANGED <<formUser, liveSession, newComment, submitting, commentList,
                   commentSeq>>
    /\ UNCHANGED outsideWrites

\* await updateDoc(...) rejects: the alert; edit mode stays.
UpdateCommentFail(i) ==
    /\ i \in DOMAIN commentCalls
    /\ commentCalls[i].kind = "update"
    /\ commentCalls' = RemoveAt(commentCalls, i)
    /\ commentAlert' = "updateFailed"
    /\ commentOp' = "updateFailed"
    /\ UNCHANGED <<formUser, liveSession, newComment, submitting, editingCommentId,
                   editText, commentList, commentDocs, commentSeq>>
    /\ UNCHANGED outsideWrites

\* The trash button of comment k, confirmed: handleDeleteComment(comment.id) up
\* to await deleteDoc(...).
HandleDeleteComment(k) ==
    /\ k \in DOMAIN commentList
    /\ AuthorButtonsShown(commentList[k])
    /\ Len(commentCalls) < MaxCommentCalls
    /\ LET call == [kind |-> "delete", id |-> commentList[k].id, text |-> <<>>,
                    actor |-> ResolveUid(formUser, liveSession),
                    owner |-> commentList[k].uid, doc |-> NoDoc]
       IN commentCalls' = Append(commentCalls, call)
    /\ commentAlert' = "none"
    /\ commentOp' = "deleteIssued"
    /\ UNCHANGED <<formUser, liveSession, newComment, submitting, editingCommentId,
                   editText, commentList, commentDocs, commentSeq>>
    /\ UNCHANGED outsideWrites

\* await deleteDoc(...) resolves: the document is gone.
DeleteCommentOk(i) ==
    /\ i \in DOMAIN commentCalls
    /\ commentCalls[i].kind = "delete"
    /\ commentDocs' = SelectSeq(commentDocs, LAMBDA d : d.id # commentCalls[i].id)
    /\ commentCalls' = RemoveAt(commentCalls, i)
    /\ commentAlert' = "none"
    /\ commentOp' = "deleteOk"
    /\ UNCHANGED <<formUser, liveSession, newComment, submitting, editingCommentId,
                   editText, commentList, commentSeq>>
    /\ UNCHANGED outsideWrites

\* await deleteDoc(...) rejects: the alert.
DeleteCommentFail(i) ==
    /\ i \in DOMAIN commentCalls
    /\ commentCalls[i].kind = "delete"
    /\ commentCalls' = RemoveAt(commentCalls, i)
    /\ commentAlert' = "deleteFailed"
    /\ commentOp' = "deleteFailed"
    /\ UNCHANGED <<formUser, liveSession, newComment, submitting, editingCommentId,
                   editText, commentList, commentDocs, commentSeq>>
    /\ UNCHANGED outsideWrites

CommentAddNext ==
    \/ \E v \in Users \cup {NoUid} : FormViewerChange(v)
    \/ \E v \in Users \cup {NoUid} : LiveSessionChange(v)
    \/ \E t \in Texts : SetNewComment(t)
    \/ HandleAddComment
    \/ \E i \in 1..MaxCommentCalls : AddCommentOk(i)
    \/ \E i \in 1..MaxCommentCalls : AddCommentFail(i)
    \/ ListSnapshot

CommentEditNext ==
    \/ \E v \in Users \cup {NoUid} : FormViewerChange(v)
    \/ \E v \in Users \cup {NoUid} : LiveSessionChange(v)
    \/ ListSnapshot
    \/ \E k \in 1..MaxCommentDocs : StartEditing(k)
    \/ CancelEditing
    \/ \E t \in Texts : SetEditText(t)
    \/ HandleUpdateComment
    \/ \E i \in 1..MaxCommentCalls : UpdateCommentOk(i)
    \/ \E i \in 1..MaxCommentCalls : UpdateCommentFail(i)
    \/ \E k \in 1..MaxCommentDocs : HandleDeleteComment(k)
    \/ \E i \in 1..MaxCommentCalls : DeleteCommentOk(i)
    \/ \E i \in 1..MaxCommentCalls : DeleteCommentFail(i)

----------------------------------------------------------------------------
\* App: the popularity ranking (fetchPopular).

PopularSampleLimit == 100
PopularTop == 5

\* The book titles of the model: five plain titles, a padded spelling of the
\* first, a title that is a number, and a whitespace-only title.
BookTitleSeq ==
    << <<"a">>, <<" ", "a", " ">>, <<"b">>, <<"c">>, <<"d">>, <<"e">>, <<"7">>,
       <<" ">> >>

\* The likes arrays of the sampled posts.
LikeArraySeq == << <<>>, <<"u1", "u2">> >>

\* The kinds of post of the model, numbered.
NumPostKinds == Len(BookTitleSeq) * Len(LikeArraySeq)
PostKind(k) ==
    [bookTitle |-> BookTitleSeq[((k - 1) \div Len(LikeArraySeq)) + 1],
     likes |-> LikeArraySeq[((k - 1) % Len(LikeArraySeq)) + 1]]

Min(a, b) == IF a <= b THEN a ELSE b

\* allPosts.forEach(post => ...): the map from trimmed title to ranked book,
\* kept as the sequence of its values in insertion order.
RECURSIVE BookMap(_, _)
BookMap(allPosts, acc) ==
    IF allPosts = <<>> THEN acc
    ELSE LET post == Head(allPosts)
             title == Trim(post.bookTitle)
         IN IF title = <<>> THEN BookMap(Tail(allPosts), acc)
            ELSE IF \E k \in DOMAIN acc : acc[k].title = title
            THEN BookMap(Tail(allPosts),
                         [k \in DOMAIN acc |->
                            IF acc[k].title = title
                            THEN [acc[k] EXCEPT !.totalLikes = @ + Len(post.likes)]
                            ELSE acc[k]])
            ELSE BookMap(Tail(allPosts),
                         Append(acc, [title |-> title,
                                      totalLikes |-> Len(post.likes)]))

\* A property key that is a canonical array index ("0", "7", "1984"): all
\* digits, no leading zero.  Keys of up to MaxIndexDigits digits are below
\* the largest array index.
DigitChars == <<"0", "1", "2", "3", "4", "5", "6", "7", "8", "9">>
MaxIndexDigits == 9
IsDigit(c) == \E i \in DOMAIN DigitChars : DigitChars[i] = c
DigitValue(c) == (CHOOSE i \in DOMAIN DigitChars : DigitChars[i] = c) - 1
IsArrayIndex(t) ==
    /\ t # <<>>
    /\ Len(t) <= MaxIndexDigits
    /\ \A i \in DOMAIN t : IsDigit(t[i])
    /\ Len(t) = 1 \/ t[1] # "0"

RECURSIVE IndexValue(_)
IndexValue(t) ==
    IF t = <<>> THEN 0
    ELSE IndexValue(SubSeq(t, 1, Len(t) - 1)) * 10 + DigitValue(t[Len(t)])

RECURSIVE InsertByIndex(_, _)
InsertByIndex(sorted, b) ==
    IF sorted = <<>> THEN <<b>>
    ELSE IF IndexValue(Head(sorted).title) <= IndexValue(b.title)
    THEN <<Head(sorted)>> \o InsertByIndex(Tail(sorted), b)
    ELSE <<b>> \o sorted

RECURSIVE SortByIndex(_)
SortByIndex(books) ==
    IF books = <<>> THEN <<>>
    ELSE InsertByIndex(SortByIndex(SubSeq(books, 1, Len(books) - 1)),
                       books[Len(books)])

\* Object.values(bookMap): the values of the array-index keys in ascending
\* numeric order, then the values of the other keys in insertion order.
ObjectValues(entries) ==
    SortByIndex(SelectSeq(entries, LAMBDA b : IsArrayIndex(b.title)))
        \o SelectSeq(entries, LAMBDA b : ~IsArrayIndex(b.title))

RECURSIVE InsertByLikes(_, _)
InsertByLikes(sorted, b) ==
    IF sorted = <<>> THEN <<b>>
    ELSE IF Head(sorted).totalLikes >= b.totalLikes
    THEN <<Head(sorted)>> \o InsertByLikes(Tail(sorted), b)
    ELSE <<b>> \o sorted

SortByLikesNone(books) == books
\* .sort((a, b) => b.totalLikes - a.totalLikes): a stable descending sort.
RECURSIVE SortByLikes(_)
SortByLikes(books) ==
    IF books = <<>> THEN <<>>
    ELSE InsertByLikes(SortByLikes(SubSeq(books, 1, Len(books) - 1)),
                       books[Len(books)])

\* The ranking fetchPopular computes from the documents of the posts
\* collection, newest first.
PopularRanking(docs) ==
    LET allPosts == SubSeq(docs, 1, Min(Len(docs), PopularSampleLimit))
        sorted == SortByLikes(ObjectValues(BookMap(allPosts, <<>>)))
        kept == SelectSeq(sorted, LAMBDA b : b.totalLikes > 0 \/ Len(allPosts) > 0)
    IN SubSeq(kept, 1, Min(Len(kept), PopularTop))

PopularInit ==
    /\ popularSample = <<>>
    /\ popularBooks = <<>>
    /\ popularLoading = TRUE
    /\ popularOp = "none"

PopularParked == PopularInit

\* A post of kind k is in the posts collection when the ranking is fetched.
\* The samples are built in the order of the kinds.
SamplePost(k) ==
    /\ popularOp = "none"
    /\ Len(popularSample) < MaxSample
    /\ popularSample # <<>> => \E j \in 1..k : PostKind(j) = popularSample[Len(popularSample)]
    /\ popularSample' = Append(popularSample, PostKind(k))
    /\ UNCHANGED <<popularBooks, popularLoading, popularOp>>
    /\ UNCHANGED outsidePopular

\* fetchPopular up to await getDocs(q): setPopularLoading(true).
FetchPopular ==
    /\ popularOp = "none"
    /\ popularLoading' = TRUE
    /\ popularOp' = "loading"
    /\ UNCHANGED <<popularSample, popularBooks>>
    /\ UNCHANGED outsidePopular

\* await getDocs(q) resolves: setPopularBooks(sorted), then the finally block.
FetchPopularOk ==
    /\ popularOp = "loading"
    /\ popularBooks' = PopularRanking(popularSample)
    /\ popularLoading' = FALSE
    /\ popularOp' = "ranked"
    /\ UNCHANGED popularSample
    /\ UNCHANGED outsidePopular

\* await getDocs(q) rejects: the finally block only.
FetchPopularFail ==
    /\ popularOp = "loading"
    /\ popularLoading' = FALSE
    /\ popularOp' = "failed"
    /\ UNCHANGED <<popularSample, popularBooks>>
    /\ UNCHANGED outsidePopular

PopularNext ==
    \/ \E k \in 1..NumPostKinds : SamplePost(k)
    \/ FetchPopular
    \/ FetchPopularOk
    \/ FetchPopularFail

----------------------------------------------------------------------------
\* CreatePostModal and the generative content service (generateBookContent).

\* The values of the text inputs of the modal: empty, typed, generated.
DraftTexts == {"", "typed"}
GeneratedText == "generated"

NoContent == [isNull |-> TRUE, review |-> "", quote |-> ""]
IdleCall == [caller |-> "none", state |-> "idle", cause |-> "none", value |-> NoContent]
NoPostCall == [state |-> "idle", title |-> "", review |-> ""]

\* What ai.models.generateContent yields: a rejection, or a response whose
\* text is empty, is not JSON, or is the requested JSON object.
Responses == {"networkError", "emptyText", "malformedText", "jsonText"}

\* JSON.parse(text) for the texts of the model.
JsonParses(response) == response = "jsonText"
JsonParse(response) == [isNull |-> FALSE, review |-> GeneratedText, quote |-> GeneratedText]

Returned(cause, value) == [state |-> "returned", cause |-> cause, value |-> value]

CaughtRethrown(cause) == [state |-> "thrown", cause |-> cause, value |-> NoContent]
\* catch (error) { console.error(...); return null; }
Caught(cause) == Returned(cause, NoContent)

\* generateBookContent from await ai.models.generateContent(...) on.
ServiceResult(response) ==
    IF response = "networkError" THEN Caught(response)
    ELSE IF response = "emptyText" THEN Returned(response, NoContent)
    ELSE IF ~JsonParses(response) THEN Caught(response)
    ELSE Returned(response, JsonParse(response))

\* generateBookContent up to await ai.models.generateContent(...).
GenerateBookContent(caller) ==
    IF ~aiClient
    THEN [caller |-> caller] @@ Returned("noClient", NoContent)
    ELSE [caller |-> caller, state |-> "awaiting", cause |-> "none", value |-> NoContent]

ModalInit ==
    /\ apiKey \in BOOLEAN
    /\ aiClient = apiKey
    /\ modalOpen = TRUE
    /\ draftTitle = ""
    /\ draftAuthor = ""
    /\ draftReview = ""
    /\ draftQuote = ""
    /\ publishLoading = FALSE
    /\ aiLoading = FALSE
    /\ aiCall = IdleCall
    /\ postCall = NoPostCall
    /\ modalOp = "none"

ModalParked ==
    /\ apiKey = FALSE
    /\ aiClient = FALSE
    /\ modalOpen = FALSE
    /\ draftTitle = ""
    /\ draftAuthor = ""
    /\ draftReview = ""
    /\ draftQuote = ""
    /\ publishLoading = FALSE
    /\ aiLoading = FALSE
    /\ aiCall = IdleCall
    /\ postCall = NoPostCall
    /\ modalOp = "none"

SetTitle(t) ==
    /\ modalOpen
    /\ t # draftTitle
    /\ draftTitle' = t
    /\ modalOp' = "typed"
    /\ UNCHANGED <<apiKey, aiClient, modalOpen, draftAuthor, draftReview, draftQuote,
                   publishLoading, aiLoading, aiCall, postCall>>
    /\ UNCHANGED outsideModal

SetAuthor(t) ==
    /\ modalOpen
    /\ t # draftAuthor
    /\ draftAuthor' = t
    /\ modalOp' = "typed"
    /\ UNCHANGED <<apiKey, aiClient, modalOpen, draftTitle, draftReview, draftQuote,
                   publishLoading, aiLoading, aiCall, postCall>>
    /\ UNCHANGED outsideModal

SetReview(t) ==
    /\ modalOpen
    /\ t # draftReview
    /\ draftReview' = t
    /\ modalOp' = "typed"
    /\ UNCHANGED <<apiKey, aiClient, modalOpen, draftTitle, draftAuthor, draftQuote,
                   publishLoading, aiLoading, aiCall, postCall>>
    /\ UNCHANGED outsideModal

\* The assist button is disabled while aiLoading or without a title.
AiButtonEnabled == modalOpen /\ ~aiLoading /\ draftTitle # ""

\* handleAiAssist up to await generateBookContent(title, author).
HandleAiAssist ==
    /\ AiButtonEnabled
    /\ aiCall = IdleCall
    /\ IF draftTitle = "" \/ draftAuthor = ""
       THEN /\ modalOp' = "needTitleAuthor"
            /\ UNCHANGED <<aiLoading, aiCall>>
       ELSE IF ~apiKey
       THEN /\ modalOp' = "keyMissing"
            /\ UNCHANGED <<aiLoading, aiCall>>
       ELSE /\ aiLoading' = TRUE
            /\ aiCall' = GenerateBookContent("assist")
            /\ modalOp' = "aiStarted"
    /\ UNCHANGED <<apiKey, aiClient, modalOpen, draftTitle, draftAuthor, draftReview,
                   draftQuote, publishLoading, postCall>>
    /\ UNCHANGED outsideModal

\* generateBookContent called on its own, whatever the environment holds.
GenerateDirect ==
    /\ aiCall = IdleCall
    /\ aiCall' = GenerateBookContent("direct")
    /\ modalOp' = "directStarted"
    /\ UNCHANGED <<apiKey, aiClient, modalOpen, draftTitle, draftAuthor, draftReview,
                   draftQuote, publishLoading, aiLoading, postCall>>
    /\ UNCHANGED outsideModal

\* ai.models.generateContent settles and generateBookContent runs to its end.
GenerateContentSettles(response) ==
    /\ aiCall.state = "awaiting"
    /\ aiCall' = [caller |-> aiCall.caller] @@ ServiceResult(response)
    /\ modalOp' = "aiSettled"
    /\ UNCHANGED <<apiKey, aiClient, modalOpen, draftTitle, draftAuthor, draftReview,
                   draftQuote, publishLoading, aiLoading, postCall>>
    /\ UNCHANGED outsideModal

\* handleAiAssist after await generateBookContent(title, author).  A
\* rejection of the awaited promise ends the handler there.
AiAssistResume ==
    /\ aiCall.caller = "assist"
    /\ aiCall.state \in {"returned", "thrown"}
    /\ IF aiCall.state = "thrown"
       THEN /\ modalOp' = "aiAborted"
            /\ UNCHANGED <<aiLoading, draftReview, draftQuote>>
       ELSE /\ aiLoading' = FALSE
            /\ IF ~aiCall.value.isNull
               THEN /\ draftReview' = aiCall.value.review
                    /\ draftQuote' = aiCall.value.quote
                    /\ modalOp' = "aiApplied"
               ELSE /\ modalOp' = "aiFailed"
                    /\ UNCHANGED <<draftReview, draftQuote>>
    /\ aiCall' = IdleCall
    /\ UNCHANGED <<apiKey, aiClient, modalOpen, draftTitle, draftAuthor,
                   publishLoading, postCall>>
    /\ UNCHANGED outsideModal

\* The caller of a direct call receives the settled promise.
DirectResume ==
    /\ aiCall.caller = "direct"
    /\ aiCall.state \in {"returned", "thrown"}
    /\ aiCall' = IdleCall
    /\ modalOp' = "directDone"
    /\ UNCHANGED <<apiKey, aiClient, modalOpen, draftTitle, draftAuthor, draftReview,
                   draftQuote, publishLoading, aiLoading, postCall>>
    /\ UNCHANGED outsideModal

\* The publish button is disabled while loading or without title or review.
PublishEnabled == modalOpen /\ ~publishLoading /\ draftTitle # "" /\ draftReview # ""

\* handleSubmit up to await addDoc(...).
HandleSubmit ==
    /\ modalOpen
    /\ ~publishLoading
    /\ IF draftTitle = "" \/ draftReview = ""
       THEN /\ modalOp' = "submitRejected"
            /\ UNCHANGED <<publishLoading, postCall>>
       ELSE /\ publishLoading' = TRUE
            /\ postCall' = [state |-> "awaiting", title |-> draftTitle,
                            review |-> draftReview]
            /\ modalOp' = "submitIssued"
    /\ UNCHANGED <<apiKey, aiClient, modalOpen, draftTitle, draftAuthor, draftReview,
                   draftQuote, aiLoading, aiCall>>
    /\ UNCHANGED outsideModal

\* addDoc resolves: onClose(), then the finally block.
SubmitOk ==
    /\ postCall.state = "awaiting"
    /\ modalOpen' = FALSE
    /\ publishLoading' = FALSE
    /\ postCall' = [postCall EXCEPT !.state = "created"]
    /\ modalOp' = "published"
    /\ UNCHANGED <<apiKey, aiClient, draftTitle, draftAuthor, draftReview, draftQuote,
                   aiLoading, aiCall>>
    /\ UNCHANGED outsideModal

\* addDoc rejects: the finally block only.
SubmitFail ==
    /\ postCall.state = "awaiting"
    /\ publishLoading' = FALSE
    /\ postCall' = NoPostCall
    /\ modalOp' = "publishFailed"
    /\ UNCHANGED <<apiKey, aiClient, modalOpen, draftTitle, draftAuthor, draftReview,
                   draftQuote, aiLoading, aiCall>>
    /\ UNCHANGED outsideModal

ModalNext ==
    \/ \E t \in DraftTexts : SetTitle(t)
    \/ \E t \in DraftTexts : SetAuthor(t)
    \/ \E t \in DraftTexts : SetReview(t)
    \/ HandleAiAssist
    \/ GenerateDirect
    \/ \E r \in Responses : GenerateContentSettles(r)
    \/ AiAssistResume
    \/ DirectResume
    \/ HandleSubmit
    \/ SubmitOk
    \/ SubmitFail

----------------------------------------------------------------------------
\* App: the auth state listener with its asynchronous profile lookup.

NoProfileDoc == [exists |-> FALSE, followers |-> {}, following |-> {}]
\* const newUser: UserProfile = { ..., followers: [], following: [] }
NewUserDoc == [exists |-> TRUE, followers |-> {}, following |-> {}]
NoAppUser == [uid |-> NoUid, followers |-> {}, following |-> {}]
\* The viewer the catch block sets.
FallbackUser(u) == [uid |-> u, followers |-> {}, following |-> {}]
\* The viewer a snapshot of the user document sets.
SnapshotUser(u, d) == [uid |-> u, followers |-> d.followers, following |-> d.following]

\* if (unsubscribeUserDoc) unsubscribeUserDoc(): id 0 stands for undefined.
UnsubscribeUserDoc(ls, id) == {l \in ls : l.id # id}

AuthInit ==
    /\ provider = NoUid
    /\ appUser = NoAppUser
    /\ appAuthLoading = TRUE
    /\ lookups = <<>>
    /\ userDocs \in [Users -> {NoProfileDoc, NewUserDoc}]
    /\ docListeners = {}
    /\ unsubscribeUserDoc = 0
    /\ listenerSeq = 0
    /\ authEvents = 0
    /\ authOp = "none"

AuthParked ==
    /\ provider = NoUid
    /\ appUser = NoAppUser
    /\ appAuthLoading = TRUE
    /\ lookups = <<>>
    /\ userDocs = [u \in Users |-> NoProfileDoc]
    /\ docListeners = {}
    /\ unsubscribeUserDoc = 0
    /\ listenerSeq = 0
    /\ authEvents = 0
    /\ authOp = "none"

\* The callback for a signed-in user, up to await getDoc(userRef).
OnSignIn(u) ==
    /\ authEvents < MaxAuthEvents
    /\ Len(lookups) < MaxLookups
    /\ u # provider
    /\ provider' = u
    /\ authEvents' = authEvents + 1
    /\ docListeners' = UnsubscribeUserDoc(docListeners, unsubscribeUserDoc)
    /\ lookups' = Append(lookups, [uid |-> u, stage |-> "getDoc"])
    /\ authOp' = "signIn"
    /\ UNCHANGED <<appUser, appAuthLoading, userDocs, unsubscribeUserDoc, listenerSeq>>
    /\ UNCHANGED outsideAuth

\* The callback for no user: the first event of a signed-out browser, or a
\* sign-out.
OnSignOut ==
    /\ authEvents < MaxAuthEvents
    /\ provider # NoUid \/ authEvents = 0
    /\ provider' = NoUid
    /\ authEvents' = authEvents + 1
    /\ docListeners' = UnsubscribeUserDoc(docListeners, unsubscribeUserDoc)
    /\ appUser' = NoAppUser
    /\ appAuthLoading' = FALSE
    /\ authOp' = "signOut"
    /\ UNCHANGED <<lookups, userDocs, unsubscribeUserDoc, listenerSeq>>
    /\ UNCHANGED outsideAuth

\* unsubscribeUserDoc = onSnapshot(userRef, ...), then setAuthLoading(false).
SubscribeUserDoc(i) ==
    /\ listenerSeq' = listenerSeq + 1
    /\ unsubscribeUserDoc' = listenerSeq + 1
    /\ docListeners' = docListeners \cup {[id |-> listenerSeq + 1, uid |-> lookups[i].uid]}
    /\ appAuthLoading' = FALSE
    /\ lookups' = RemoveAt(lookups, i)

\* await getDoc(userRef) resolves.
GetDocOk(i) ==
    /\ i \in DOMAIN lookups
    /\ lookups[i].stage = "getDoc"
    /\ IF userDocs[lookups[i].uid].exists
       THEN /\ SubscribeUserDoc(i)
            /\ authOp' = "subscribed"
       ELSE /\ lookups' = [lookups EXCEPT ![i].stage = "setDoc"]
            /\ authOp' = "setDocIssued"
            /\ UNCHANGED <<docListeners, unsubscribeUserDoc, listenerSeq, appAuthLoading>>
    /\ UNCHANGED <<provider, appUser, userDocs, authEvents>>
    /\ UNCHANGED outsideAuth

\* await setDoc(userRef, newUser) resolves: the document is written whole.
SetDocOk(i) ==
    /\ i \in DOMAIN lookups
    /\ lookups[i].stage = "setDoc"
    /\ userDocs' = [userDocs EXCEPT ![lookups[i].uid] = NewUserDoc]
    /\ SubscribeUserDoc(i)
    /\ authOp' = "profileWritten"
    /\ UNCHANGED <<provider, appUser, authEvents>>
    /\ UNCHANGED outsideAuth

\* await getDoc or await setDoc rejects: the catch block.
LookupFail(i) ==
    /\ i \in DOMAIN lookups
    /\ appUser' = FallbackUser(lookups[i].uid)
    /\ appAuthLoading' = FALSE
    /\ lookups' = RemoveAt(lookups, i)
    /\ authOp' = "lookupFailed"
    /\ UNCHANGED <<provider, userDocs, docListeners, unsubscribeUserDoc, listenerSeq,
                   authEvents>>
    /\ UNCHANGED outsideAuth

\* A listener of the user document delivers a snapshot.
DocSnapshot(id) ==
    /\ \E l \in docListeners :
          /\ l.id = id
          /\ userDocs[l.uid].exists
          /\ appUser' = SnapshotUser(l.uid, userDocs[l.uid])
    /\ appUser' # appUser
    /\ authOp' = "snapshot"
    /\ UNCHANGED <<provider, appAuthLoading, lookups, userDocs, docListeners,
                   unsubscribeUserDoc, listenerSeq, authEvents>>
    /\ UNCHANGED outsideAuth

\* A follow batch of some client updates an existing user document.
RemoteProfileWrite(u, fers, fing) ==
    /\ userDocs[u].exists
    /\ userDocs' = [userDocs EXCEPT ![u].followers = fers, ![u].following = fing]
    /\ userDocs' # userDocs
    /\ authOp' = "remoteWrite"
    /\ UNCHANGED <<provider, appUser, appAuthLoading, lookups, docListeners,
                   unsubscribeUserDoc, listenerSeq, authEvents>>
    /\ UNCHANGED outsideAuth

AuthNext ==
    \/ \E u \in Users : OnSignIn(u)
    \/ OnSignOut
    \/ \E i \in 1..MaxLookups : GetDocOk(i)
    \/ \E i \in 1..MaxLookups : SetDocOk(i)
    \/ \E i \in 1..MaxLookups : LookupFail(i)
    \/ \E id \in 1..MaxAuthEvents : DocSnapshot(id)
    \/ \E u \in Users : \E fers \in SUBSET (Users \ {u}) : \E fing \in SUBSET (Users \ {u}) :
          RemoteProfileWrite(u, fers, fing)

----------------------------------------------------------------------------
\* The three components that keep a loading flag around a remote call, each
\* exercised on its own: the behaviour picks one of them at the start.

ScenarioParked == scenario = "none"

\* The steps of each component that start or resolve a call with a loading
\* flag, and the steps that lead to them.
FeedScenario ==
    /\ scenario = "feed"
    /\ \/ \E u \in Users : AuthSignedIn(u)
       \/ \E f \in SUBSET Users : f \subseteq Users \ {session} /\ UserDocSnapshot(f)
       \/ \E ft \in {"GLOBAL", "FOLLOWING"} : SetFeed(ft)
       \/ LoadMoreTrigger
       \/ \E i \in 1..MaxFetches : FetchOk(i)
       \/ \E i \in 1..MaxFetches : FetchFail(i)

CommentScenario ==
    /\ scenario = "comment"
    /\ \/ \E t \in Texts : SetNewComment(t)
       \/ HandleAddComment
       \/ \E i \in 1..MaxCommentCalls : AddCommentOk(i)
       \/ \E i \in 1..MaxCommentCalls : AddCommentFail(i)

FollowScenario ==
    /\ scenario = "follow"
    /\ \/ \E t \in Users : OpenProfile(t)
       \/ \E i \in 1..MaxProfileFetches : ProfileLoaded(i)
       \/ HandleFollowToggle
       \/ \E i \in 1..MaxBatches : BatchCommitOk(i)
       \/ \E i \in 1..MaxBatches : BatchCommitFail(i)

LoadingNext ==
    \/ FeedScenario
    \/ CommentScenario
    \/ FollowScenario

\* A remote call in flight resolves, successfully or with a failure.  The
\* oldest call of each kind is the one required to resolve, so that every
\* call does.
FetchResolves == scenario = "feed" /\ (FetchOk(1) \/ FetchFail(1))
AddCommentResolves == scenario = "comment" /\ (AddCommentOk(1) \/ AddCommentFail(1))
BatchResolves == scenario = "follow" /\ (BatchCommitOk(1) \/ BatchCommitFail(1))

----------------------------------------------------------------------------
\* Specifications, one per component; the other components stay parked.

InitLike ==
    /\ LikeInit /\ FeedParked /\ FollowParked /\ CommentParked
    /\ WriteParked /\ PopularParked /\ ModalParked /\ AuthParked /\ ScenarioParked
InitFeed ==
    /\ LikeParked /\ FeedInit /\ FollowParked /\ CommentParked
    /\ WriteParked /\ PopularParked /\ ModalParked /\ AuthParked /\ ScenarioParked
InitFollow ==
    /\ LikeParked /\ FeedParked /\ FollowInit /\ CommentParked
    /\ WriteParked /\ PopularParked /\ ModalParked /\ AuthParked /\ ScenarioParked
InitComments ==
    /\ LikeParked /\ FeedParked /\ FollowParked /\ CommentInit
    /\ WriteParked /\ PopularParked /\ ModalParked /\ AuthParked /\ ScenarioParked
InitWrites ==
    /\ LikeParked /\ FeedParked /\ FollowParked /\ CommentExpanded
    /\ WriteInit /\ PopularParked /\ ModalParked /\ AuthParked /\ ScenarioParked
InitPopular ==
    /\ LikeParked /\ FeedParked /\ FollowParked /\ CommentParked
    /\ WriteParked /\ PopularInit /\ ModalParked /\ AuthParked /\ ScenarioParked
InitModal ==
    /\ LikeParked /\ FeedParked /\ FollowParked /\ CommentParked
    /\ WriteParked /\ PopularParked /\ ModalInit /\ AuthParked /\ ScenarioParked
InitAuth ==
    /\ LikeParked /\ FeedParked /\ FollowParked /\ CommentParked
    /\ WriteParked /\ PopularParked /\ ModalParked /\ AuthInit /\ ScenarioParked
InitLoading ==
    /\ LikeParked /\ PopularParked /\ ModalParked /\ AuthParked
    /\ \/ scenario = "feed" /\ FeedInit /\ FollowParked /\ CommentParked /\ WriteParked
       \/ scenario = "comment" /\ FeedParked /\ FollowParked /\ CommentExpanded /\ WriteInit
       \/ scenario = "follow" /\ FeedParked /\ FollowInit /\ CommentParked /\ WriteParked

\* The like toggle of one post card whose props are held fixed.
SpecLike == InitLike /\ [][LikeNext]_vars

\* The like toggle of one post card and the like writes of other clients.
SpecLikeStore == InitLike /\ [][LikeStoreNext]_vars

\* The session and the feed paginator of App.
SpecFeed == InitFeed /\ [][FeedNext]_vars

\* The follow toggle of one profile page.
SpecFollow == InitFollow /\ [][FollowNext]_vars

\* The comment stream of one post card.
SpecComments == InitComments /\ [][CommentNext]_vars

\* The comment form of one expanded post card.
SpecCommentAdd == InitWrites /\ [][CommentAddNext]_vars

\* One of the three components with a loading flag, and the same with every
\* remote call resolving.
SpecLoading == InitLoading /\ [][LoadingNext]_vars
SpecLoadingFair ==
    SpecLoading /\ WF_vars(FetchResolves \/ AddCommentResolves \/ BatchResolves)

\* The like toggle of one post card under re-renders of its parent.
SpecCard == InitLike /\ [][CardNext]_vars

\* The auth state listener of App with the users collection.
SpecAuth == InitAuth /\ [][AuthNext]_vars

\* The post modal with its two remote calls.
SpecModal == InitModal /\ [][ModalNext]_vars

\* The popularity ranking of App, computed once from a sample of posts.
SpecPopular == InitPopular /\ [][PopularNext]_vars

\* The comment edit and delete controls of one expanded post card.
SpecCommentEdit == InitWrites /\ [][CommentEditNext]_vars

----------------------------------------------------------------------------
\* C1: for any interleaving of like clicks and any choice of failing writes,
\* right after a failed write's rollback the displayed liked boolean and count
\* equal the values they had immediately before that toggle's optimistic
\* mutation.
C1_RollbackRestoresSnapshot ==
    lastFail.valid =>
        /\ isLiked = lastFail.preLiked
        /\ likeCount = lastFail.preCount

RECURSIVE ToggleTimes(_, _)
ToggleTimes(n, s) ==
    IF n = 0 THEN s
    ELSE ToggleTimes(n - 1, <<~s[1], IF s[1] THEN s[2] - 1 ELSE s[2] + 1>>)

----------------------------------------------------------------------------
LoadMoresInFlight == {i \in DOMAIN fetches : ~fetches[i].isInitial}

\* C4: a load-more invoked again before the first load-more query resolves is
\* a no-op: at most one load-more query is in flight, and while it is, the
\* loadingMore flag is set and the observer's callback issues nothing, so one
\* query is issued and its page is appended once.
C4_OneLoadMoreQuery ==
    /\ Cardinality(LoadMoresInFlight) <= 1
    /\ LoadMoresInFlight # {} => (loadingMore /\ ~(LoaderMounted /\ LoadMoreGuard))

C4_Witness ==
    /\ LoadMoresInFlight # {}
    /\ LoaderMounted
    /\ hasMore /\ ~postsLoading /\ ~isMapView

\* C5: in every reachable state at most one page fetch, initial or load-more,
\* is in flight.
C5_AtMostOneFetchInFlight == Len(fetches) <= 1

----------------------------------------------------------------------------
\* C6: following and followers mirror each other in every reachable store
\* state: target is in viewer.following exactly when viewer is in
\* target.followers.
C6_FollowMirrored == Mirrored(storeFollowers, storeFollowing)

C6_Witness ==
    /\ followOp = "committed"
    /\ \E v \in Users : storeFollowing[v] # {}

----------------------------------------------------------------------------
\* C7: a card holds at most one comment listener; it holds one exactly while
\* the panel is expanded on a mounted card, and then on the card's current
\* post; every onSnapshot call is matched by one unsubscribe call once the
\* panel is collapsed, the card torn down or the post id changed.
C7_OneCommentSubscription ==
    /\ Cardinality(commentSubs) <= 1
    /\ (Cardinality(commentSubs) = 1) <=> (cardMounted /\ showComments)
    /\ \A h \in commentSubs : h.post = cardPostId /\ h.id = cleanup
    /\ subscribes = unsubscribes + Cardinality(commentSubs)

C7_Witness ==
    /\ cardMounted /\ showComments
    /\ subscribes >= 2
    /\ Cardinality(commentSubs) = 1

----------------------------------------------------------------------------
\* C8: the page of an initial load in FOLLOWING mode, for a viewer who follows
\* somebody, is the first page of the posts whose author is followed by the
\* viewer or is the viewer.
C8_FollowingPageAdmitsOwnPosts ==
    \A i \in DOMAIN fetches :
        LET q == fetches[i]
        IN (q.isInitial /\ q.mode = "FOLLOWING" /\ q.viewer.following # {}) =>
             QueryPage(q.filter, q.cursor) =
               FirstN({id \in StorePosts : SnapshotFeedFilter(q.viewer, id)},
                      POSTS_PER_PAGE)

\* C9: an initial load in FOLLOWING mode with no viewer, or a viewer who
\* follows nobody, issues no query, leaves the feed empty and exhausted, and
\* leaves postsLoading reset.
C9_FollowingNobodyIssuesNoQuery ==
    (/\ feedOp \in {"initialIssued", "initialSkipped"}
     /\ feedType = "FOLLOWING"
     /\ NoFollowing(user))
    => (/\ feedIssued = 0
        /\ posts = <<>>
        /\ ~hasMore
        /\ ~postsLoading)

C9_Witness ==
    /\ feedOp = "initialSkipped"
    /\ user # NoUser

\* C10: the step in which a load-more query fails leaves the loaded posts, the
\* cursor and the exhaustion flag as they were and sets the error state; the
\* error state stays set, and while it is set the observer starts no load-more.
C10_LoadMoreFailure ==
    /\ [](feedOp = "moreFailed" => error)
    /\ [](error => ~(LoaderMounted /\ LoadMoreGuard))
    /\ [][error => error']_vars
    /\ [][feedOp' = "moreFailed" =>
            (posts' = posts /\ lastDoc' = lastDoc /\ hasMore' = hasMore)]_vars

C10_Witness ==
    /\ feedOp = "moreFailed"
    /\ Len(posts) >= POSTS_PER_PAGE
    /\ hasMore

----------------------------------------------------------------------------
\* The posts the query with author filter F admits, in feed order, cut to n.
FilteredPrefix(F, n) == FirstN({id \in StorePosts : PostAuthor(id) \in F}, n)

\* C11: in every reachable state the loaded feed holds no post id twice and is
\* in createdAt-descending order (ascending post number here), a stored cursor
\* is the last document of the page appended last, and, the store being
\* unchanging, the loaded sequence is a gap-free prefix of the ordered result of
\* some mode's filter.
C11_FeedOrderedGapFree ==
    /\ \A i \in DOMAIN posts : \A j \in DOMAIN posts : i < j => posts[i] < posts[j]
    /\ lastDoc # 0 => (posts # <<>> /\ lastDoc = Last(posts))
    /\ \E F \in (SUBSET Users) \ {{}} : posts = FilteredPrefix(F, Len(posts))

\* C12: a successful page fetch sets hasMore to FALSE exactly when its page held
\* fewer than POSTS_PER_PAGE posts; while hasMore is FALSE no load-more query is
\* issued, and hasMore returns to TRUE only through an initial load.
C12_ExhaustionFlag ==
    /\ [][feedOp' = "initialOk" => (hasMore' <=> Len(posts') = POSTS_PER_PAGE)]_vars
    /\ [][feedOp' = "moreOk" =>
            (hasMore' <=> Len(posts') - Len(posts) = POSTS_PER_PAGE)]_vars
    /\ [][~hasMore => feedOp' # "moreIssued"]_vars
    /\ [][(~hasMore /\ hasMore') => feedOp' \in {"initialIssued", "initialOk"}]_vars

----------------------------------------------------------------------------
NoDuplicates(arr) ==
    \A i \in DOMAIN arr : \A j \in DOMAIN arr : arr[i] = arr[j] => i = j

\* C13: each like toggle by an identified viewer issues exactly one update of
\* the post's likes field, an array-union of the viewer's id when the card
\* showed not-liked and an array-remove when it showed liked; after any
\* sequence of such updates by any viewers the likes array holds each user
\* identifier at most once.
C13_OneWritePerToggleNoDuplicates ==
    /\ []NoDuplicates(storeLikes)
    /\ [][likeClicks' # likeClicks =>
            /\ Len(likeWrites') = Len(likeWrites) + 1
            /\ likeWrites'[Len(likeWrites')].uid = cardUid
            /\ likeWrites'[Len(likeWrites')].wasLiked = isLiked]_vars
    /\ [][likeClicks' = likeClicks => Len(likeWrites') <= Len(likeWrites)]_vars

C13_Witness ==
    /\ Len(storeLikes) = 2
    /\ likeClicks >= 3
    /\ ~initLiked
    /\ likeWrites # <<>>

\* C14: with no viewer identifier a like toggle shows the login prompt and
\* changes nothing: the liked boolean, the count and the store are as they
\* were and no write is issued.
C14_LikeWithoutViewerIsNoOp ==
    /\ [](cardUid = NoUid =>
            /\ likeWrites = <<>>
            /\ likeClicks = 0
            /\ isLiked = initLiked
            /\ likeCount = initCount
            /\ storeLikes \in ArraysOf(postLikes))
    /\ [](likeAlert = "loginRequired" => cardUid = NoUid)
    /\ [][likeAlert' = "loginRequired" =>
            UNCHANGED <<isLiked, likeCount, likeWrites, storeLikes>>]_vars

C14_Witness ==
    /\ cardUid = NoUid
    /\ likeAlert = "loginRequired"
    /\ likeCount = 2

----------------------------------------------------------------------------
\* C15: in every execution, also when the viewer signs out or changes while a
\* comment is in edit mode, a comment edit or delete write is issued only by
\* an acting viewer whose identifier equals the comment's uid.
C15_OnlyAuthorEditsOrDeletes ==
    \A i \in DOMAIN commentCalls :
        commentCalls[i].kind \in {"update", "delete"} =>
            commentCalls[i].actor = commentCalls[i].owner

IsBlank(t) == \A i \in DOMAIN t : t[i] = " "

AddHandlerOps == {"addIssued", "addRejectedEmpty", "addRejectedNoViewer"}

\* C16: addComment with empty or whitespace-only text, or with neither a
\* passed-in profile nor a live session, issues no store write and leaves the
\* comment list, the input text and the submitting flag unchanged.
C16_RejectedAddIsNoOp ==
    /\ [][(/\ commentOp' \in AddHandlerOps
           /\ (IsBlank(newComment) \/ (formUser = NoUid /\ liveSession = NoUid)))
          => UNCHANGED <<commentCalls, commentDocs, commentList, newComment,
                         submitting>>]_vars
    /\ [](\A i \in DOMAIN commentCalls :
            commentCalls[i].kind = "add" =>
                ~IsBlank(commentCalls[i].text) /\ commentCalls[i].actor # NoUid)
    /\ [](\A k \in DOMAIN commentDocs :
            ~IsBlank(commentDocs[k].text) /\ commentDocs[k].uid # NoUid)

C16_Witness ==
    /\ commentOp = "addRejectedEmpty"
    /\ newComment = <<" ">>
    /\ formUser # NoUid
    /\ Len(commentDocs) = 1

\* C17: when an addComment write succeeds the input text is cleared, when it
\* fails the input text is left as it was and an error is shown; in both cases
\* submitting is false after the write resolves; the created document has
\* parentId null, postId the card's post and uid the viewer who submitted.
C17_AddCommentOutcome ==
    /\ [][commentOp' = "addIssued" /\ commentCalls' # commentCalls =>
            LET c == commentCalls'[Len(commentCalls')]
            IN /\ c.kind = "add"
               /\ c.actor = (IF formUser # NoUid THEN formUser ELSE liveSession)
               /\ c.doc.uid = c.actor
               /\ c.doc.parentId = NoParent
               /\ c.doc.postId = cardPostId]_vars
    /\ [][commentOp' = "addOk" /\ commentCalls' # commentCalls =>
            /\ newComment' = <<>>
            /\ ~submitting'
            /\ Len(commentDocs') = Len(commentDocs) + 1
            /\ LET d == commentDocs'[Len(commentDocs')]
               IN /\ d.parentId = NoParent
                  /\ d.postId = cardPostId
                  /\ \E i \in DOMAIN commentCalls :
                        /\ commentCalls[i].kind = "add"
                        /\ d.uid = commentCalls[i].actor
                        /\ d.text = commentCalls[i].text]_vars
    /\ [][commentOp' = "addFailed" /\ commentCalls' # commentCalls =>
            /\ newComment' = newComment
            /\ commentAlert' = "addFailed"
            /\ ~submitting'
            /\ commentDocs' = commentDocs]_vars

C17_Witness ==
    /\ commentOp = "addOk"
    /\ Len(commentDocs) = 2
    /\ newComment = <<>>
    /\ commentDocs[2].uid # formUser

----------------------------------------------------------------------------
FlippedFollowers(fers, viewer) ==
    IF viewer \in fers THEN fers \ {viewer} ELSE fers \cup {viewer}

\* The toggle changes the cached followers, adding or removing the viewer, in
\* the step that puts the batch in flight, and leaves the store alone.
ToggleIsOptimistic ==
    [][followOp' = "toggled" /\ batches' # batches =>
        /\ profile'.followers = FlippedFollowers(profile.followers, pageViewer)
        /\ Len(batches') = Len(batches) + 1
        /\ UNCHANGED <<storeFollowers, storeFollowing>>]_vars

\* The step in which a batch fails leaves the cached profile and the store as
\* they were.
FailureKeepsOptimistic ==
    [][followOp' = "failed" /\ batches' # batches =>
        UNCHANGED <<profile, storeFollowers, storeFollowing>>]_vars

\* The batch that leaves the in-flight list in this step was issued from the
\* page of the user whose profile is cached, and the cached profile is still
\* the one its toggle left.
FailedOnCachedProfile(i) ==
    /\ batches' = RemoveAt(batches, i)
    /\ profile.uid = batches[i].target
    /\ profile = batches[i].optimistic

C19_FollowWithoutViewerIsNoOp ==
    /\ [][(pageViewer = NoUid /\ followOp' \in {"toggled", "loginRequired"}) =>
            UNCHANGED <<profile, followLoading, batches, storeFollowers,
                        storeFollowing>>]_vars
    /\ [](followOp = "loginRequired" => pageViewer = NoUid)
    /\ [](\A i \in DOMAIN batches : batches[i].viewer # NoUid)

C19_Witness ==
    /\ followOp = "loginRequired"
    /\ profile.exists
    /\ storeFollowers[pageTarget] # {}

----------------------------------------------------------------------------
\* The title of a post with its whitespace removed (the titles of the model
\* have no inner whitespace).
TitleKey(t) == SelectSeq(t, LAMBDA c : c # " ")

\* The titled groups of a sample, and the likes of a group.
GroupsOf(docs) == {TitleKey(docs[i].bookTitle) : i \in DOMAIN docs} \ {<<>>}

RECURSIVE GroupLikes(_, _, _)
GroupLikes(docs, g, n) ==
    IF n = 0 THEN 0
    ELSE GroupLikes(docs, g, n - 1) +
         (IF TitleKey(docs[n].bookTitle) = g THEN Len(docs[n].likes) ELSE 0)

----------------------------------------------------------------------------
\* The position of the first post of a titled group in a sample.
FirstAppearance(docs, g) ==
    CHOOSE i \in DOMAIN docs :
        /\ TitleKey(docs[i].bookTitle) = g
        /\ \A j \in 1..(i - 1) : TitleKey(docs[j].bookTitle) # g

\* C21: two groups of the ranking with equal summed likes are listed in the
\* order of their first appearance in the sampled post sequence.
C21_TiesInFirstAppearanceOrder ==
    popularOp = "ranked" =>
        \A i \in DOMAIN popularBooks : \A j \in DOMAIN popularBooks :
            (i < j /\ popularBooks[i].totalLikes = popularBooks[j].totalLikes) =>
                FirstAppearance(popularSample, popularBooks[i].title)
                    < FirstAppearance(popularSample, popularBooks[j].title)

----------------------------------------------------------------------------
AiFailures == {"noClient", "networkError", "emptyText", "malformedText"}

\* C22: generateBookContent never throws and returns null on a missing
\* credential, an empty response, an unparsable response and a network
\* error; the AI-loading flag is set only while an assist call is pending;
\* and no step of an AI call that ends in such an outcome touches the state
\* handleSubmit depends on (title, review, loading, the addDoc call, the modal).
C22_AiFailureNeverBlocksPublish ==
    [][ /\ aiCall'.state # "thrown"
        /\ (aiCall'.state = "returned" /\ aiCall'.cause \in AiFailures)
              => aiCall'.value = NoContent
        /\ aiLoading' => (aiCall'.caller = "assist" /\ aiCall'.state # "idle")
        /\ (aiCall' # aiCall /\ (aiCall.state = "returned" => aiCall.value = NoContent))
              => /\ UNCHANGED <<draftTitle, draftReview, publishLoading, postCall, modalOpen>>
                 /\ PublishEnabled' = PublishEnabled
      ]_vars

C22_Witness ==
    /\ modalOp = "aiFailed"
    /\ ~aiLoading
    /\ aiCall = IdleCall
    /\ postCall.state = "awaiting"

----------------------------------------------------------------------------
\* C23: a step of the auth listener never changes a user document that
\* exists: sign-in creates the document only when there is none, so the
\* followers and following of an existing document are preserved.
C23_SignInNeverOverwritesProfile ==
    [][ authOp' # "remoteWrite" =>
          \A u \in Users : userDocs[u].exists => userDocs'[u] = userDocs[u] ]_vars

\* C25: at most one user-document listener is active, and while the provider
\* has no user (the last auth event was a sign-out) no listener is active
\* and the viewer is null.
C25_OneListenerNoneAfterSignOut ==
    /\ Cardinality(docListeners) <= 1
    /\ (provider = NoUid /\ authEvents > 0) =>
          (docListeners = {} /\ appUser = NoAppUser)

----------------------------------------------------------------------------
\* C24: once every like toggle of the card has had its write succeed, no
\* step other than a further toggle changes the displayed liked boolean or
\* the displayed count.
C24_OptimisticStateKeptAfterSuccess ==
    [][ (likeClicks > 0 /\ likeWrites = <<>> /\ ~likeFailed /\ likeClicks' = likeClicks)
          => (isLiked' = isLiked /\ likeCount' = likeCount) ]_vars

----------------------------------------------------------------------------
\* C26: a step that starts a load-more page query is taken in the list view
\* and leaves the list view on: while the map view is active none starts.
C26_NoLoadMoreInMapView ==
    [][ (Len(fetches') > Len(fetches) /\ ~fetches'[Len(fetches')].isInitial)
          => (~isMapView /\ ~isMapView') ]_vars

\* A load-more query issued in the list view resolves while the map is shown.
C26_Witness ==
    /\ isMapView
    /\ feedOp = "moreOk"
    /\ Len(posts) > POSTS_PER_PAGE

----------------------------------------------------------------------------
\* C27: no follow batch in flight has the viewer as its target, and no
\* user's followers or following in the store holds the user's own
\* identifier.
C27_NoSelfFollow ==
    /\ \A i \in DOMAIN batches : batches[i].viewer # batches[i].target
    /\ \A u \in Users : u \notin storeFollowers[u] /\ u \notin storeFollowing[u]

\* The signed-in user changes to the owner of the open profile while a batch
\* of the previous viewer is in flight.
C27_Witness ==
    /\ batches # <<>>
    /\ ~pageLoading
    /\ profile.exists
    /\ IsOwnProfile

----------------------------------------------------------------------------
\* C28: the displayed like count is never negative, and a card displayed as
\* liked has a count of at least 1.
C28_CountConsistentWithLiked ==
    /\ likeCount >= 0
    /\ isLiked => likeCount >= 1

----------------------------------------------------------------------------
\* A page query issued under another feed mode or for another viewer than the
\* current ones, with another filter than the current one.
StaleFetch(q) ==
    /\ q.mode # feedType \/ q.viewer.uid # user.uid
    /\ q.filter # QueryFilter(feedType, user)

\* C29: the response of a page query issued under a previous feed mode or
\* viewer changes neither the displayed feed nor the stored cursor, and once
\* no query is in flight every displayed post passes the filter of the
\* current mode and viewer.
C29_StaleResponseIgnored ==
    [][ /\ \A i \in DOMAIN fetches :
              (fetches' = RemoveAt(fetches, i) /\ feedOp' \in {"initialOk", "moreOk"}
                 /\ StaleFetch(fetches[i]))
                => UNCHANGED <<posts, lastDoc>>
        /\ (fetches' = <<>> /\ feedOp' \in {"initialOk", "moreOk"} /\ view' = "home")
              => \A k \in DOMAIN posts' :
                     PostAuthor(posts'[k]) \in QueryFilter(feedType', user')
      ]_vars

----------------------------------------------------------------------------
\* C30: with every remote call resolving, no loading flag stays true for
\* ever: whenever it is set it is eventually reset, postsLoading and
\* loadingMore by the page fetches, submitting by the comment submission,
\* followLoading by the follow batch.
C30_LoadingFlagsReset ==
    /\ []<>(~postsLoading)
    /\ []<>(~loadingMore)
    /\ []<>(~submitting)
    /\ []<>(~followLoading)

\* A load-more query has failed and its flag is reset.
C30_Witness ==
    /\ scenario = "feed"
    /\ feedOp = "moreFailed"
    /\ ~loadingMore

====
